---- MODULE Spec2Model ----
(***************************************************************************)
(* Model of the ragviet retrieval service: the FAISS-backed VectorStore    *)
(* (src/utils/vector_store.py), its on-disk snapshot, and the request      *)
(* handlers of src/api/views.py that drive it.                             *)
(*                                                                         *)
(* Python lists are sequences (1-based here, 0-based in the source), dicts *)
(* are records or functions, None is the string "None".                    *)
(***************************************************************************)
EXTENDS Integers, Sequences, FiniteSets, TLC

\* ------------------------------------------------------------------------
\* Bounds of the model
\* ------------------------------------------------------------------------
MaxChunks == 2
MaxBatch == 2
MaxStore == 2

\* ------------------------------------------------------------------------
\* Input universes
\* ------------------------------------------------------------------------
None == "None"
Users == {"u1", "u2"}
Owners == Users \cup {None}
Files == {"a.pdf", "tmp1.pdf"}
Pages == {1, 2}
ChunkIds == {0}
Texts == {"t1", "t2"}
Queries == {"q1", "q2"}
TopKs == {1, 2}

\* The characters of each file name, for the temp-file regular expression.
NameChars ==
  [f \in Files |->
     IF f = "a.pdf" THEN <<"a", ".", "p", "d", "f">>
     ELSE <<"t", "m", "p", "1", ".", "p", "d", "f">>]

\* ------------------------------------------------------------------------
\* Generic helpers
\* ------------------------------------------------------------------------
Min(a, b) == IF a <= b THEN a ELSE b

Range(s) == {s[i] : i \in 1..Len(s)}

\* Option values: <<>> is "absent", <<v>> is "present with content v".
Absent == <<>>
Present(v) == <<v>>
IsPresent(o) == Len(o) = 1

\* All sequences over S of length 1..n.
SeqsUpTo(S, n) == UNION {[1..k -> S] : k \in 1..n}

\* list.sort(key=...) of Python is stable.  SortPerm(keys) is the order in
\* which a stable ascending sort visits the positions 1..Len(keys): a
\* position is placed after every position whose key is not greater.
RECURSIVE InsertIdx(_, _, _)
InsertIdx(i, p, keys) ==
  IF p = <<>> THEN <<i>>
  ELSE IF keys[p[Len(p)]] <= keys[i] THEN Append(p, i)
  ELSE Append(InsertIdx(i, SubSeq(p, 1, Len(p) - 1), keys), p[Len(p)])

RECURSIVE SortPermN(_, _)
SortPermN(keys, n) ==
  IF n = 0 THEN <<>> ELSE InsertIdx(n, SortPermN(keys, n - 1), keys)

SortPerm(keys) == SortPermN(keys, Len(keys))

\* s sorted (stably, ascending) by the integer keys keyOf[i] of its elements.
SortByKeys(s, keys) ==
  LET p == SortPerm(keys) IN [i \in 1..Len(s) |-> s[p[i]]]

\* The whitespace of a text: the space "SP" and the newline "NL".
Spaces == {"SP", "NL"}

RECURSIVE lstrip(_)
lstrip(text) ==
  IF text # <<>> /\ Head(text) \in Spaces THEN lstrip(Tail(text)) ELSE text

RECURSIVE rstrip(_)
rstrip(text) ==
  IF text # <<>> /\ text[Len(text)] \in Spaces
  THEN rstrip(SubSeq(text, 1, Len(text) - 1))
  ELSE text

\* str.strip()
strip(text) == rstrip(lstrip(text))

\* ------------------------------------------------------------------------
\* Embedder: SentenceTransformer.encode, one coordinate per text.
\* ------------------------------------------------------------------------
Encode(text) ==
  CASE text = "t1" -> 1
    [] text = "t2" -> 5
    [] text = "q1" -> 2
    [] text = "q2" -> 6
    [] text = "fdfgfgf" -> 9

EncodeAll(texts) == [i \in 1..Len(texts) |-> Encode(texts[i])]

\* Squared L2 distance of faiss.IndexFlatL2.
L2(v, q) == (v - q) * (v - q)

\* ------------------------------------------------------------------------
\* State
\* ------------------------------------------------------------------------
VARIABLES
  HAS_AI_LIBS,       \* faiss / numpy / sentence_transformers imported
  encoder,           \* TRUE when self.encoder is a loaded model, FALSE when None
  index,             \* vectors of self.index (empty when self.index is None)
  metadata,          \* self.metadata
  metadata_by_file,  \* self.metadata_by_file
  disk_index,        \* file at index_path: Absent or Present(vectors)
  disk_meta,         \* file at metadata_path: Absent or Present(metadata)
  faulted,           \* an exception of the environment was injected
  last_op,           \* the last call: [op, status, user, filename]
  results,           \* return value of the last search / get_adjacent_chunks
  search_view,       \* index.ntotal and len(metadata) as read by that search
  threads,           \* per request thread: the call it runs and its position
  base,              \* the store when the concurrent requests arrived
  user_files,        \* the user_files collection of the database
  reranker_model,    \* TRUE when Reranker.model is loaded, FALSE when None
  context,           \* the chunks /chat/send handed to generate_answer
  uploads,           \* number of /files/upload requests handled
  adjacent_args,     \* the last get_adjacent_chunks call: [chunks, page_range]
  chat_sessions,     \* the chat_sessions collection of the database
  chat_history,      \* the chat_history collection, in insertion order
  clock,             \* datetime.utcnow()
  wrote,             \* the last chat request wrote to the database
  response,          \* the HTTP response of the last chat request
  chat_trace,        \* the last /chat/send: its message, the calls it made
  chat_reqs,         \* per concurrent /chat/send request: its position and data
  arrivals,          \* the concurrent /chat/send requests in arrival order
  temp_files,        \* the temporary files on disk: <<request number, file number>>
  upload_req,        \* the last /files/upload request: [files, docs, fault, before]
  llm_client,        \* TRUE when llm_client is a Groq client, FALSE when None
  gen_call,          \* the generate_answer call: its position, locals, result
  llm_calls,         \* the chat.completions.create calls it made, in order
  delete_call,       \* the last delete call: its arguments, the store before it
  sessions,          \* AuthManager.sessions: token -> user (None when absent)
  issued,            \* per token: Absent or Present(day of the login that issued it)
  today,             \* the date of datetime.utcnow(), in days
  logged_out,        \* the issued tokens that logout requests have carried
  accounts,          \* the users collection: password_hash, reset_token, expiry
  consumed,          \* the OTPs of successful resets since the last OTP was issued
  auth_log,          \* the last auth request: its inputs and its result
  rerank_call,       \* the last Reranker.rerank call: [query, top_k, score_ok]
  chunking           \* the create_chunks call: its position, self, locals

vars == <<HAS_AI_LIBS, encoder, index, metadata, metadata_by_file,
          disk_index, disk_meta, faulted, last_op, results, search_view,
          threads, base, user_files, reranker_model, context, uploads,
          adjacent_args, chat_sessions, chat_history, clock, wrote,
          response, chat_trace, chat_reqs, arrivals, temp_files, upload_req,
          llm_client, gen_call, llm_calls, delete_call, sessions, issued,
          today, logged_out, accounts, consumed, auth_log, rerank_call,
          chunking>>

storeVars == <<index, metadata, metadata_by_file>>
\* The variables that only the concurrent specification moves.
concVars == <<search_view, threads, base>>
\* The variables that only the request handlers of views.py move.
\* The chat log of the database and the HTTP response.
chatVars == <<chat_sessions, chat_history, clock, wrote, response,
              chat_trace>>
\* The variables that the upload requests leave alone.
\* The concurrent /chat/send requests.
chatConcVars == <<chat_reqs, arrivals>>
unitVars == <<adjacent_args, chatVars, chatConcVars>>
\* The temporary files and the request of /files/upload.
uploadVars == <<temp_files, upload_req>>
\* The LLM client and the generate_answer call.
genVars == <<llm_client, gen_call, llm_calls>>
\* The record of the last delete call on the VectorStore.
maintVars == <<delete_call>>
\* The login sessions, the accounts and the record of the auth requests.
authVars == <<sessions, issued, today, logged_out, accounts, consumed,
              auth_log>>
chunkVars == <<chunking>>
opsVars == <<maintVars, authVars, rerank_call, chunkVars>>
apiVars == <<user_files, reranker_model, context, uploads, unitVars,
             uploadVars, genVars, opsVars>>
diskVars == <<disk_index, disk_meta>>
modeVars == <<HAS_AI_LIBS, encoder>>

\* The chunk dicts handed to add_documents: {"text", "metadata": {...}}.
\* Every page carries one of two texts, so that the chunks of different
\* pages have different embeddings.
PageText(page) == IF page = 1 THEN "t1" ELSE "t2"

ChunkUniverse ==
  {c \in [text : Texts,
          metadata : [filename : Files, page_number : Pages,
                      chunk_id : ChunkIds, user_id : Owners]] :
     c.text = PageText(c.metadata.page_number)}

\* ------------------------------------------------------------------------
\* VectorStore helpers
\* ------------------------------------------------------------------------
EmptyFileIndex == [f \in Files |-> <<>>]

\* Request threads and their state while no request is running.
Threads == {1, 2}

IdleThread ==
  [pc |-> "idle", op |-> "none", chunks |-> <<>>, filename |-> None,
   user |-> None, valid |-> Absent, kept |-> <<>>, i |-> 0]

EmptyStore ==
  [index |-> <<>>, metadata |-> <<>>, metadata_by_file |-> EmptyFileIndex]

NoView == [ntotal |-> 0, nmeta |-> 0]

ConcIdle ==
  /\ search_view = NoView
  /\ threads = [t \in Threads |-> IdleThread]
  /\ base = EmptyStore

NoResponse == [code |-> 0]

ChatRequests == {1, 2}
IdleRequest ==
  [pc |-> "idle", user |-> None, message |-> "",
   reply |-> [kind |-> "none", file |-> None]]

NoTrace == [message |-> "", calls |-> {}]

UnitIdle ==
  /\ adjacent_args = [chunks |-> <<>>, page_range |-> 0]
  /\ chat_sessions = {}
  /\ chat_history = <<>>
  /\ clock = 0
  /\ wrote = TRUE
  /\ response = NoResponse
  /\ chat_trace = NoTrace
  /\ chat_reqs = [r \in ChatRequests |-> IdleRequest]
  /\ arrivals = <<>>

NoUpload ==
  [files |-> <<>>, docs |-> <<>>, fault |-> [kind |-> "none", at |-> 0],
   before |-> <<>>]

UploadIdle ==
  /\ temp_files = {}
  /\ upload_req = NoUpload

\* No generate_answer call.
NoReturn == [kind |-> "none", content |-> <<>>, context |-> <<>>]

NoCall ==
  [pc |-> "idle", context_chunks |-> <<>>, answer |-> <<>>, tried |-> 0,
   returned |-> NoReturn]

GenIdle ==
  /\ llm_client = FALSE
  /\ gen_call = NoCall
  /\ llm_calls = <<>>

\* No delete call.
NoDelete ==
  [op |-> "none", status |-> "ok", user_id |-> None, filename |-> None,
   valid_filenames |-> Absent, before |-> <<>>, n |-> 0]

\* secrets.token_urlsafe(32) values
Tokens == {"tok1", "tok2"}

\* str(secrets.randbelow(10000)).zfill(4) values
Otps == {"0007", "0042"}

Passwords == {"secret1", "secret2", "short"}

\* len(password)
PasswordLen(password) == IF password = "short" THEN 5 ELSE 7

\* hashlib.sha256(password.encode()).hexdigest()
Sha256(password) == <<"sha256", password>>

\* A user document: every account starts with the password "secret1" and
\* without reset fields.
NewAccount ==
  [password_hash |-> Sha256("secret1"), reset_token |-> None,
   reset_token_expires |-> Absent]

\* No auth request.
NoRequest == [body |-> None, query |-> None, cookie |-> None, header |-> <<>>]

NoAuth ==
  [op |-> "none", request |-> NoRequest, token |-> None, user |-> None,
   ok |-> TRUE, was_consumed |-> FALSE, changed |-> FALSE]

AuthIdle ==
  /\ sessions = [t \in Tokens |-> None]
  /\ issued = [t \in Tokens |-> Absent]
  /\ today = 0
  /\ logged_out = {}
  /\ accounts = [u \in Users |-> NewAccount]
  /\ consumed = {}
  /\ auth_log = NoAuth

\* No rerank call.
NoRerank == [query |-> "", top_k |-> 0, score_ok |-> TRUE]

\* No create_chunks call has been made.
NoChunking ==
  [pc |-> "idle", chunk_size |-> 0, overlap |-> 0, text |-> <<>>,
   start |-> 0, chunk_id |-> 0, chunks |-> <<>>]

OpsIdle ==
  /\ delete_call = NoDelete
  /\ AuthIdle
  /\ rerank_call = NoRerank
  /\ chunking = NoChunking

ApiIdle ==
  /\ UnitIdle
  /\ UploadIdle
  /\ GenIdle
  /\ OpsIdle
  /\ user_files = {}
  /\ reranker_model = FALSE
  /\ context = <<>>
  /\ uploads = 0

\* key=lambda x: (x.get("page_number", 0), x.get("chunk_id", 0)) as one integer
PageChunkKey(m) == m.page_number * 100 + m.chunk_id

SortByPageChunk(entries) ==
  SortByKeys(entries, [i \in 1..Len(entries) |-> PageChunkKey(entries[i])])

\* _build_file_index
BuildFileIndex(meta) ==
  [f \in Files |->
     SortByPageChunk(SelectSeq(meta, LAMBDA m : m.filename = f))]

\* meta_entry of add_documents
MetaEntry(chunk) ==
  [text |-> chunk.text,
   filename |-> chunk.metadata.filename,
   page_number |-> chunk.metadata.page_number,
   chunk_id |-> chunk.metadata.chunk_id,
   user_id |-> chunk.metadata.user_id]

\* temp_pattern = ^tmp[a-z0-9_]+\.pdf$ with re.IGNORECASE
LowerAlnum ==
  {"a", "b", "c", "d", "e", "f", "g", "h", "i", "j", "k", "l", "m", "n",
   "o", "p", "q", "r", "s", "t", "u", "v", "w", "x", "y", "z",
   "0", "1", "2", "3", "4", "5", "6", "7", "8", "9", "_"}

Lower(c) ==
  CASE c = "T" -> "t" [] c = "M" -> "m" [] c = "P" -> "p"
    [] c = "D" -> "d" [] c = "F" -> "f" [] OTHER -> c

TempPatternMatch(f) ==
  LET cs == [i \in 1..Len(NameChars[f]) |-> Lower(NameChars[f][i])]
      n == Len(cs)
  IN /\ n >= 8
     /\ SubSeq(cs, 1, 3) = <<"t", "m", "p">>
     /\ SubSeq(cs, n - 3, n) = <<".", "p", "d", "f">>
     /\ \A i \in 4..(n - 4) : cs[i] \in LowerAlnum

\* ------------------------------------------------------------------------
\* VectorStore operations as functions of the store
\*   st = [index, metadata, metadata_by_file, disk_index, disk_meta]
\* Each returns [st |-> the store afterwards, raised |-> the call raised].
\* `outcome` names the step of the call at which the environment fails:
\*   "ok"               nothing fails
\*   "encode_error"     self.encoder.encode raises
\*   "save_error_index" os.makedirs / faiss.write_index raises, nothing written
\*   "save_error_meta"  open(metadata_path, 'w') raises after the index file
\*                      was written
\* ------------------------------------------------------------------------
Outcomes == {"ok", "encode_error", "save_error_index", "save_error_meta"}
SaveOutcomes == {"ok", "save_error_index", "save_error_meta"}

Store ==
  [index |-> index, metadata |-> metadata,
   metadata_by_file |-> metadata_by_file,
   disk_index |-> disk_index, disk_meta |-> disk_meta]

\* `self.encoder and self.index`
CanEmbed == encoder /\ HAS_AI_LIBS

Returned(st) == [st |-> st, raised |-> FALSE]
Raised(st) == [st |-> st, raised |-> TRUE]

\* _create_new_index
create_new_index(st) ==
  [st EXCEPT !.index = <<>>, !.metadata = <<>>,
             !.metadata_by_file = EmptyFileIndex]

\* save_index
save_index(st, outcome) ==
  LET withIndex ==
        IF HAS_AI_LIBS
        THEN [st EXCEPT !.disk_index = Present(st.index)]
        ELSE st
  IN CASE outcome = "save_error_index" -> Raised(st)
       [] outcome = "save_error_meta" -> Raised(withIndex)
       [] OTHER ->
            Returned([withIndex EXCEPT !.disk_meta = Present(st.metadata)])

\* That loop without the sort of the list.
RECURSIVE AppendToFileIndex_NoSort(_, _)
AppendToFileIndex_NoSort(fi, entries) ==
  IF entries = <<>> THEN fi
  ELSE LET e == Head(entries)
       IN AppendToFileIndex_NoSort(
            [fi EXCEPT ![e.filename] = Append(@, e)], Tail(entries))

\* The loop of add_documents over the chunks: append to the per-file list
\* and sort that list, one entry at a time.
RECURSIVE AppendToFileIndex(_, _)
AppendToFileIndex(fi, entries) ==
  IF entries = <<>> THEN fi
  ELSE LET e == Head(entries)
       IN AppendToFileIndex(
            [fi EXCEPT ![e.filename] = SortByPageChunk(Append(@, e))],
            Tail(entries))

\* add_documents
add_documents(st, chunks, outcome) ==
  IF chunks = <<>> THEN Returned(st)
  ELSE IF CanEmbed /\ outcome = "encode_error" THEN Raised(st)
  ELSE
    LET texts == [i \in 1..Len(chunks) |-> chunks[i].text]
        entries == [i \in 1..Len(chunks) |-> MetaEntry(chunks[i])]
        st1 == IF CanEmbed
               THEN [st EXCEPT !.index = @ \o EncodeAll(texts)]
               ELSE st
        st2 == [st1 EXCEPT
                  !.metadata = @ \o entries,
                  !.metadata_by_file = AppendToFileIndex(@, entries)]
    IN save_index(st2, outcome)

\* The tail shared by delete_by_filename and delete_temp_files_by_user once
\* the entries to keep are known.
rebuild_from_kept(st, kept, outcome) ==
  IF Len(kept) = Len(st.metadata) THEN Returned(st)
  ELSE IF Len(kept) = 0 THEN save_index(create_new_index(st), outcome)
  ELSE
    LET texts == [i \in 1..Len(kept) |-> kept[i].text]
        st1 == create_new_index(st)
    IN IF CanEmbed /\ outcome = "encode_error" THEN Raised(st1)
       ELSE
         LET st2 == IF CanEmbed
                    THEN [st1 EXCEPT !.index = EncodeAll(texts)]
                    ELSE st1
             st3 == [st2 EXCEPT !.metadata = kept,
                                !.metadata_by_file = BuildFileIndex(kept)]
         IN save_index(st3, outcome)

\* indices_to_keep of delete_by_filename
KeepOnDeleteByFilename(m, filename, user_id) ==
  IF user_id # None
  THEN ~(m.filename = filename /\ m.user_id = user_id)
  ELSE m.filename # filename

\* delete_by_filename
delete_by_filename(st, filename, user_id, outcome) ==
  rebuild_from_kept(
    st,
    SelectSeq(st.metadata,
              LAMBDA m : KeepOnDeleteByFilename(m, filename, user_id)),
    outcome)

\* indices_to_keep of delete_temp_files_by_user; valid_filenames is Absent
\* (None) or Present(set of names).
KeepOnDeleteTemp(m, user_id, valid_filenames) ==
  IF IsPresent(valid_filenames) /\ valid_filenames[1] # {}
  THEN ~(m.user_id = user_id
         /\ (TempPatternMatch(m.filename)
             \/ m.filename \notin valid_filenames[1]))
  ELSE ~(m.user_id = user_id /\ TempPatternMatch(m.filename))

\* delete_temp_files_by_user
delete_temp_files_by_user(st, user_id, valid_filenames, outcome) ==
  rebuild_from_kept(
    st,
    SelectSeq(st.metadata,
              LAMBDA m : KeepOnDeleteTemp(m, user_id, valid_filenames)),
    outcome)

\* clear_all
clear_all(st, outcome) ==
  save_index(create_new_index(st), outcome)

\* Which failure points a call actually passes through.
AddReaches(st, chunks, outcome) ==
  \/ outcome = "ok"
  \/ chunks # <<>> /\ outcome = "encode_error" /\ CanEmbed
  \/ chunks # <<>> /\ outcome \in SaveOutcomes

RebuildReaches(st, kept, outcome) ==
  \/ outcome = "ok"
  \/ /\ Len(kept) < Len(st.metadata)
     /\ \/ outcome \in SaveOutcomes
        \/ outcome = "encode_error" /\ CanEmbed /\ Len(kept) > 0

\* self.index.search(query_embedding, k): positions of the k nearest
\* vectors, nearest first (equal distances in insertion order).
IndexSearch(idx, qv, k) ==
  LET p == SortPerm([i \in 1..Len(idx) |-> L2(idx[i], qv)])
  IN SubSeq(p, 1, k)

\* The filter of search without the filename test.
SearchPasses_NoFilenameFilter(meta, filename, user_id) ==
  user_id # None => (meta.user_id = None \/ meta.user_id = user_id)

\* The filter of search without the user_id test.
SearchPasses_NoUserFilter(meta, filename, user_id) ==
  filename # None => meta.filename = filename

SearchPasses(meta, filename, user_id) ==
  /\ filename # None => meta.filename = filename
  /\ user_id # None => (meta.user_id = None \/ meta.user_id = user_id)

SearchResult(meta, distance) ==
  [text |-> meta.text, filename |-> meta.filename,
   page_number |-> meta.page_number, chunk_id |-> meta.chunk_id,
   user_id |-> meta.user_id, distance |-> distance]

\* The positions in self.metadata of the entries search returns, in the
\* order of the results.
search_positions(st, query, top_k, filename, user_id) ==
  IF ~HAS_AI_LIBS \/ Len(st.index) = 0 THEN <<>>
  ELSE IF ~encoder THEN <<>>
  ELSE
    LET qv == Encode(query)
        search_k == IF filename # None \/ user_id # None
                    THEN top_k * 3 ELSE top_k
        k == Min(search_k, Len(st.index))
        cand == IndexSearch(st.index, qv, k)
        inMeta == SelectSeq(cand, LAMBDA i : i <= Len(st.metadata))
        kept == SelectSeq(inMeta,
                  LAMBDA i : SearchPasses(st.metadata[i], filename, user_id))
    IN SubSeq(kept, 1, Min(top_k, Len(kept)))

\* search: a copy of each of those entries with its distance
search(st, query, top_k, filename, user_id) ==
  LET hits == search_positions(st, query, top_k, filename, user_id)
  IN [j \in 1..Len(hits) |->
        SearchResult(st.metadata[hits[j]],
                     L2(st.index[hits[j]], Encode(query)))]

\* load_index; read_ok = FALSE when faiss.read_index / json.load raises.
load_index(st, read_ok) ==
  IF HAS_AI_LIBS /\ IsPresent(st.disk_index) /\ IsPresent(st.disk_meta)
  THEN IF read_ok
       THEN [st EXCEPT !.index = st.disk_index[1],
                       !.metadata = st.disk_meta[1],
                       !.metadata_by_file = BuildFileIndex(st.disk_meta[1])]
       ELSE create_new_index(st)
  ELSE create_new_index(st)

\* ------------------------------------------------------------------------
\* Specification Spec: one VectorStore, its calls issued one at a time,
\* with failures of the environment and process restarts.
\* ------------------------------------------------------------------------
NoOp == [op |-> "init", status |-> "ok", user |-> None, filename |-> None]

Op(name, status, user, filename) ==
  [op |-> name, status |-> status, user |-> user, filename |-> filename]

SetStore(st) ==
  /\ index' = st.index
  /\ metadata' = st.metadata
  /\ metadata_by_file' = st.metadata_by_file
  /\ disk_index' = st.disk_index
  /\ disk_meta' = st.disk_meta

\* The environment fails at most once in a behaviour.
Inject(outcome) ==
  /\ outcome # "ok" => ~faulted
  /\ faulted' = (faulted \/ outcome # "ok")

\* The batches of the calls of Spec: chunks tagged with their uploader,
\* a batch of several chunks coming from one file of one user.
OwnedChunks == {c \in ChunkUniverse : c.metadata.user_id \in Users}

Batches ==
  {<<>>} \cup
  {b \in SeqsUpTo(OwnedChunks, MaxBatch) :
     \A i \in 1..Len(b) :
       /\ b[i].metadata.filename = b[1].metadata.filename
       /\ b[i].metadata.user_id = b[1].metadata.user_id}

\* VectorStore.__init__ on an empty vector_store directory.
\* The embedding models __init__ tries, in order; a load succeeds or raises.
EmbeddingModels ==
  <<"keepitreal/vietnamese-sbert",
    "VoVanPhuc/sup-SimCSE-VietNamese-phobert-base",
    "sentence-transformers/paraphrase-multilingual-mpnet-base-v2">>

LoadOutcomes == [1..Len(EmbeddingModels) -> BOOLEAN]

\* VectorStore.__init__: self.encoder is a model when the libraries are
\* there and one load of the chain succeeds, None otherwise; no path of
\* the constructor raises.
ConstructedEncoder(has_ai_libs, loads) ==
  has_ai_libs /\ \E i \in 1..Len(EmbeddingModels) : loads[i]

Init ==
  /\ HAS_AI_LIBS \in BOOLEAN
  /\ encoder \in {ConstructedEncoder(HAS_AI_LIBS, loads) :
                    loads \in LoadOutcomes}
  /\ index = <<>>
  /\ metadata = <<>>
  /\ metadata_by_file = EmptyFileIndex
  /\ disk_index = Absent
  /\ disk_meta = Absent
  /\ faulted = FALSE
  /\ last_op = NoOp
  /\ results = <<>>
  /\ ConcIdle
  /\ ApiIdle

\* add_documents(chunks) with one of `batches`
AddDocumentsOf(batches) ==
  \E chunks \in batches, o \in Outcomes :
    /\ Len(metadata) + Len(chunks) <= MaxChunks
    /\ AddReaches(Store, chunks, o)
    /\ Inject(o)
    /\ SetStore(add_documents(Store, chunks, o).st)
    /\ last_op' = Op("add_documents", o, None, None)
    /\ results' = <<>>
    /\ UNCHANGED <<modeVars, concVars, apiVars>>

AddDocuments == AddDocumentsOf(Batches)

\* The variables a VectorStore call leaves alone, but for the record of
\* the delete calls.
StoreCallFrame ==
  UNCHANGED <<modeVars, concVars, user_files, reranker_model, context,
              uploads, unitVars, uploadVars, genVars, authVars,
              rerank_call, chunkVars>>

\* The record of a delete call (kept when the calls are observed).
DeleteRecord(observed, name, o, u, f, valid) ==
  IF observed
  THEN [op |-> name, status |-> o, user_id |-> u, filename |-> f,
        valid_filenames |-> valid, before |-> metadata,
        n |-> delete_call.n + 1]
  ELSE delete_call

\* delete_by_filename(f, user_id=u)
DeleteByFilenameCall(observed) ==
  \E f \in Files, u \in Users, o \in Outcomes :
    /\ RebuildReaches(Store,
         SelectSeq(metadata, LAMBDA m : KeepOnDeleteByFilename(m, f, u)), o)
    /\ Inject(o)
    /\ SetStore(delete_by_filename(Store, f, u, o).st)
    /\ last_op' = Op("delete_by_filename", o, u, None)
    /\ delete_call' =
         DeleteRecord(observed, "delete_by_filename", o, u, f, Absent)
    /\ results' = <<>>
    /\ StoreCallFrame

DeleteByFilename == DeleteByFilenameCall(FALSE)

ValidFilenameArgs == {Absent} \cup {Present(S) : S \in SUBSET Files}

\* delete_temp_files_by_user(u, valid)
DeleteTempFilesByUserCall(observed) ==
  \E u \in Users, valid \in ValidFilenameArgs, o \in Outcomes :
    /\ RebuildReaches(Store,
         SelectSeq(metadata, LAMBDA m : KeepOnDeleteTemp(m, u, valid)), o)
    /\ Inject(o)
    /\ SetStore(delete_temp_files_by_user(Store, u, valid, o).st)
    /\ last_op' = Op("delete_temp_files_by_user", o, u, None)
    /\ delete_call' =
         DeleteRecord(observed, "delete_temp_files_by_user", o, u, None,
                      valid)
    /\ results' = <<>>
    /\ StoreCallFrame

DeleteTempFilesByUser == DeleteTempFilesByUserCall(FALSE)

ClearAll ==
  \E o \in SaveOutcomes :
    /\ Inject(o)
    /\ SetStore(clear_all(Store, o).st)
    /\ last_op' = Op("clear_all", o, None, None)
    /\ results' = <<>>
    /\ UNCHANGED <<modeVars, concVars, apiVars>>

\* The process is restarted: VectorStore.__init__ runs load_index over the
\* snapshot files left on disk (the same embedding model loads, or fails
\* to load, as at the first start).
Restart ==
  \E read_ok \in BOOLEAN :
    /\ ~read_ok => /\ HAS_AI_LIBS
                   /\ IsPresent(disk_index) /\ IsPresent(disk_meta)
    /\ Inject(IF read_ok THEN "ok" ELSE "load_error")
    /\ SetStore(load_index(Store, read_ok))
    /\ last_op' = Op("load_index", IF read_ok THEN "ok" ELSE "load_error",
                     None, None)
    /\ results' = <<>>
    /\ UNCHANGED <<modeVars, concVars, apiVars>>

Next ==
  \/ AddDocuments
  \/ DeleteByFilename
  \/ DeleteTempFilesByUser
  \/ ClearAll
  \/ Restart

Spec == Init /\ [][Next]_vars

\* ------------------------------------------------------------------------
\* Specification SpecFileIndex: the same calls, failures and restarts on a
\* store that one user fills.
\* ------------------------------------------------------------------------
OneUserBatches ==
  {b \in Batches : \A i \in 1..Len(b) : b[i].metadata.user_id = "u1"}

AddDocumentsOneUser == AddDocumentsOf(OneUserBatches)

NextFileIndex ==
  \/ AddDocumentsOneUser
  \/ DeleteByFilename
  \/ DeleteTempFilesByUser
  \/ ClearAll
  \/ Restart

SpecFileIndex == Init /\ [][NextFileIndex]_vars

\* The same store when the embedding model loaded at start-up.
InitLoaded == Init /\ encoder

SpecLoaded == InitLoaded /\ [][Next]_vars

\* ------------------------------------------------------------------------
\* Read-only VectorStore calls and the Reranker used by /chat/send
\* ------------------------------------------------------------------------
\* get_stats(user_id)["total_chunks"]
StatsTotalChunks(st, user_id) ==
  Len(SelectSeq(st.metadata,
                LAMBDA m : ~(user_id # None /\ m.user_id # user_id)))

\* chunk_key of get_adjacent_chunks
ChunkKey(c) == <<c.filename, c.page_number, c.chunk_id>>

\* Python compares the file names as strings.
FileRank(f) == IF f = "a.pdf" THEN 1 ELSE 2

\* key=lambda x: (filename, page_number, chunk_id) as one integer
FilePageChunkKey(c) ==
  FileRank(c.filename) * 10000 + c.page_number * 100 + c.chunk_id

\* `if chunk_key not in seen_chunks: seen_chunks.add(...); append`
RECURSIVE AppendUnseen(_, _)
AppendUnseen(expanded, items) ==
  IF items = <<>> THEN expanded
  ELSE LET c == Head(items)
           seen == {ChunkKey(expanded[i]) : i \in 1..Len(expanded)}
       IN AppendUnseen(IF ChunkKey(c) \in seen THEN expanded
                       ELSE Append(expanded, c),
                       Tail(items))

Abs(n) == IF n < 0 THEN -n ELSE n

\* get_adjacent_chunks without the page window.
Neighbours_AnyPage(st, chunk, page_range) ==
  SelectSeq(st.metadata_by_file[chunk.filename],
            LAMBDA m : m.page_number # chunk.page_number)

\* The entries of the seed's file on the pages around the seed's page.
Neighbours(st, chunk, page_range) ==
  SelectSeq(st.metadata_by_file[chunk.filename],
            LAMBDA m : /\ Abs(m.page_number - chunk.page_number) <= page_range
                       /\ m.page_number # chunk.page_number)

RECURSIVE AllNeighbours(_, _, _)
AllNeighbours(st, chunks, page_range) ==
  IF chunks = <<>> THEN <<>>
  ELSE Neighbours(st, Head(chunks), page_range)
         \o AllNeighbours(st, Tail(chunks), page_range)

\* get_adjacent_chunks
get_adjacent_chunks(st, chunks, page_range) ==
  IF chunks = <<>> THEN <<>>
  ELSE
    LET seeds == AppendUnseen(<<>>, chunks)
        expanded == AppendUnseen(seeds, AllNeighbours(st, chunks, page_range))
    IN SortByKeys(expanded,
                  [i \in 1..Len(expanded) |-> FilePageChunkKey(expanded[i])])

\* FlagReranker.compute_score on the pair (query, text)
RerankScore(query, text) ==
  IF query = "q1" THEN (IF text = "t1" THEN 7 ELSE 3) ELSE 5

Prefix(s, n) == SubSeq(s, 1, Min(n, Len(s)))

\* Reranker.rerank with the scored documents sorted ascending.
rerank_Ascending(query, documents, top_k, score_ok) ==
  IF documents = <<>> THEN <<>>
  ELSE IF ~reranker_model \/ ~score_ok THEN Prefix(documents, top_k)
  ELSE
    LET scored == [i \in 1..Len(documents) |->
                     documents[i] @@
                       [rerank_score |->
                          RerankScore(query, documents[i].text)]]
        sorted == SortByKeys(scored,
                    [i \in 1..Len(scored) |-> scored[i].rerank_score])
    IN Prefix(sorted, top_k)

\* Reranker.rerank; score_ok is FALSE when compute_score raises.
rerank(query, documents, top_k, score_ok) ==
  IF documents = <<>> THEN <<>>
  ELSE IF ~reranker_model \/ ~score_ok THEN Prefix(documents, top_k)
  ELSE
    LET scored == [i \in 1..Len(documents) |->
                     documents[i] @@
                       [rerank_score |->
                          RerankScore(query, documents[i].text)]]
        sorted == SortByKeys(scored,
                    [i \in 1..Len(scored) |-> 0 - scored[i].rerank_score])
    IN Prefix(sorted, top_k)

\* ------------------------------------------------------------------------
\* Specification SpecQuery: one read-only call on a store of any contents
\* (chunks of both users and chunks without an owner, in any order).
\* ------------------------------------------------------------------------
StoredEntries == {MetaEntry(c) : c \in ChunkUniverse}

StoreContents == {<<>>} \cup SeqsUpTo(StoredEntries, MaxStore)

InitQuery ==
  /\ HAS_AI_LIBS \in BOOLEAN
  /\ encoder \in BOOLEAN
  /\ encoder => HAS_AI_LIBS
  /\ metadata \in StoreContents
  /\ index = IF CanEmbed
             THEN EncodeAll([i \in 1..Len(metadata) |-> metadata[i].text])
             ELSE <<>>
  /\ metadata_by_file = BuildFileIndex(metadata)
  /\ disk_index = IF HAS_AI_LIBS THEN Present(index) ELSE Absent
  /\ disk_meta = Present(metadata)
  /\ faulted = FALSE
  /\ last_op = NoOp
  /\ results = <<>>
  /\ ConcIdle
  /\ ApiIdle

Search ==
  \E q \in Queries, k \in TopKs, f \in Files \cup {None}, u \in Owners :
    /\ last_op.op = "init"
    /\ results' = search(Store, q, k, f, u)
    /\ last_op' = Op("search", "ok", u, f)
    /\ search_view' = [ntotal |-> Len(index), nmeta |-> Len(metadata)]
    /\ UNCHANGED <<storeVars, diskVars, modeVars, faulted, threads, base, apiVars>>

\* The adjacent-page expansion of the results of that search, as
\* ChatSendView.post calls it, for any page range.
PageRanges == 0..2

GetAdjacentChunks ==
  \E r \in PageRanges :
    /\ last_op.op = "search"
    /\ adjacent_args' = [chunks |-> results, page_range |-> r]
    /\ results' = get_adjacent_chunks(Store, results, r)
    /\ last_op' = Op("get_adjacent_chunks", "ok", last_op.user,
                     last_op.filename)
    /\ UNCHANGED <<storeVars, diskVars, modeVars, faulted, concVars,
                   user_files, reranker_model, context, uploads, chatVars,
                   chatConcVars, uploadVars,
                   genVars, opsVars>>

NextQuery ==
  \/ Search
  \/ GetAdjacentChunks

SpecQuery == InitQuery /\ [][NextQuery]_vars

\* ------------------------------------------------------------------------
\* Specification SpecRerank: one search on a store of any contents, then
\* one Reranker.rerank call on its results, with any query and top_k, the
\* model loaded or not.
\* ------------------------------------------------------------------------
InitRerank ==
  /\ HAS_AI_LIBS = TRUE
  /\ encoder = TRUE
  /\ metadata \in StoreContents
  /\ index = EncodeAll([i \in 1..Len(metadata) |-> metadata[i].text])
  /\ metadata_by_file = BuildFileIndex(metadata)
  /\ disk_index = Present(index)
  /\ disk_meta = Present(metadata)
  /\ faulted = FALSE
  /\ last_op = NoOp
  /\ results = <<>>
  /\ ConcIdle
  /\ user_files = {}
  /\ reranker_model \in BOOLEAN
  /\ context = <<>>
  /\ uploads = 0
  /\ UnitIdle
  /\ UploadIdle
  /\ GenIdle
  /\ OpsIdle

\* Reranker.rerank on the results of the search; compute_score can raise
\* when there is a model and a document to score.
Rerank ==
  /\ last_op.op = "search"
  /\ \E q \in Queries, top_k \in TopKs, score_ok \in BOOLEAN :
       /\ ~score_ok => (reranker_model /\ results # <<>>)
       /\ context' = rerank(q, results, top_k, score_ok)
       /\ rerank_call' = [query |-> q, top_k |-> top_k,
                          score_ok |-> score_ok]
       /\ last_op' = Op("rerank", IF score_ok THEN "ok" ELSE "score_error",
                        last_op.user, last_op.filename)
       /\ UNCHANGED <<storeVars, diskVars, modeVars, faulted, results,
                      concVars, user_files, reranker_model, uploads,
                      unitVars, uploadVars, genVars, maintVars, authVars,
                      chunkVars>>

NextRerank ==
  \/ Search
  \/ Rerank

SpecRerank == InitRerank /\ [][NextRerank]_vars

\* ------------------------------------------------------------------------
\* Specification SpecMaintain: at most MaxDeletes delete calls on a store
\* of any contents, each recorded with its arguments and the store it
\* found, and then one search.
\* ------------------------------------------------------------------------
MaxDeletes == 2

DeleteByFilenameObserved ==
  /\ last_op.op # "search"
  /\ delete_call.n < MaxDeletes
  /\ DeleteByFilenameCall(TRUE)

DeleteTempFilesByUserObserved ==
  /\ last_op.op # "search"
  /\ delete_call.n < MaxDeletes
  /\ DeleteTempFilesByUserCall(TRUE)

\* A search of the user of the last delete call.
SearchAfterDelete ==
  /\ delete_call.n > 0
  /\ last_op.op # "search"
  /\ \E q \in Queries, k \in TopKs, f \in Files \cup {None} :
       /\ results' = search(Store, q, k, f, delete_call.user_id)
       /\ last_op' = Op("search", "ok", delete_call.user_id, f)
       /\ search_view' = [ntotal |-> Len(index), nmeta |-> Len(metadata)]
       /\ UNCHANGED <<storeVars, diskVars, modeVars, faulted, threads,
                      base, apiVars>>

NextMaintain ==
  \/ DeleteByFilenameObserved
  \/ DeleteTempFilesByUserObserved
  \/ SearchAfterDelete

SpecMaintain == InitQuery /\ [][NextMaintain]_vars

\* ------------------------------------------------------------------------
\* Request handlers of views.py
\* ------------------------------------------------------------------------
SEARCH_TOP_K == 30
RERANK_TOP_K == 15
PAGE_RANGE == 2

MaxUploadFiles == 1
\* The files of one request where the request is the only one.
MaxRequestFiles == 2
MaxApiChunks == 2
MaxUploads == 2

\* What PDFProcessor extracts from an uploaded file: the pages that have
\* text, or a parse error.
PdfDocs == {[ok |-> TRUE, pages |-> ps, size |-> 1] : ps \in SUBSET Pages}
             \cup {[ok |-> FALSE, pages |-> {}, size |-> 1]}

\* The files a request can carry: those, and a file of zero bytes.
UploadedDocs == PdfDocs \cup {[ok |-> FALSE, pages |-> {}, size |-> 0]}

\* The names a request can carry: those of the store, and one that does not
\* end in ".pdf".
UploadNames == Files \cup {"b.txt"}

\* file.name.endswith('.pdf')
EndsWithPdf(name) == name \in Files

\* The pages of a document in page order.
PagesInOrder(ps) ==
  LET all == [p \in 1..2 |-> p]
  IN SelectSeq(all, LAMBDA p : p \in ps)

\* process_multiple_pdfs([tmp_path], filenames=[filename]), one chunk per
\* page, then chunk['metadata']['user_id'] = user_id
ProcessPdf(doc, filename, user_id) ==
  IF ~doc.ok THEN <<>>
  ELSE LET pages_data == PagesInOrder(doc.pages)
       IN [i \in 1..Len(pages_data) |->
             [text |-> PageText(pages_data[i]),
              metadata |-> [filename |-> filename,
                            page_number |-> pages_data[i],
                            chunk_id |-> 0, user_id |-> user_id]]]

\* The one failure of the environment during a request of n files: its
\* kind and the step it hits (the blob upload of file `at`; the registry
\* read; the registry write of file `at`; VectorStore call number `at`:
\* 1 delete_temp_files_by_user, 1 + i delete_by_filename of file i,
\* AddCallNo add_documents, the last call, numbered apart from the files).
AddCallNo == 0

UploadFaults(n) ==
  {[kind |-> k, at |-> 0] : k \in {"none", "db_read"}}
  \cup {[kind |-> k, at |-> i] : k \in {"blob", "db_write"}, i \in 1..n}
  \cup {[kind |-> k, at |-> c] :
          k \in {"encode_error", "save_error_index", "save_error_meta"},
          c \in (1..(1 + n)) \cup {AddCallNo}}

\* The first loop of FileUploadView.post: each file is checked, written to
\* a temporary file and sent to the blob store; the first file that fails
\* ends the request.  Gives the response and the files whose temporary file
\* is on disk when the loop is left.
StopsAt(files, docs, fault, i) ==
  \/ ~EndsWithPdf(files[i])
  \/ docs[i].size = 0
  \/ (fault.kind = "blob" /\ fault.at = i)

BlobLoop(files, docs, fault) ==
  LET stops == {i \in 1..Len(files) : StopsAt(files, docs, fault, i)}
  IN IF stops = {} THEN [status |-> "ok", temps |-> 1..Len(files)]
     ELSE LET i == CHOOSE x \in stops : \A y \in stops : x <= y
          IN IF ~EndsWithPdf(files[i])
             THEN [status |-> "bad_request", temps |-> 1..(i - 1)]
             ELSE IF docs[i].size = 0
             THEN [status |-> "bad_request", temps |-> 1..i]
             ELSE [status |-> "blob_error", temps |-> 1..(i - 1)]

VsOutcome(fault, callNo) ==
  IF fault.at = callNo /\ fault.kind \in Outcomes THEN fault.kind ELSE "ok"

\* The loop `for file_info in uploaded_files_info` that deletes the old
\* chunks of each file, parses it and removes its temporary file.
\* r = [st, all_chunks, raised, temps].
RECURSIVE ProcessFiles(_, _, _, _, _, _)
ProcessFiles(r, user_id, files, docs, fault, i) ==
  IF i > Len(files) \/ r.raised THEN r
  ELSE
    LET d == delete_by_filename(r.st, files[i], user_id,
                                VsOutcome(fault, 1 + i))
    IN ProcessFiles(
         [st |-> d.st,
          all_chunks |-> IF d.raised THEN r.all_chunks
                         ELSE r.all_chunks
                                \o ProcessPdf(docs[i], files[i], user_id),
          raised |-> d.raised,
          temps |-> IF d.raised THEN r.temps ELSE r.temps \ {i}],
         user_id, files, docs, fault, i + 1)

\* Database.save_user_file: upsert on (user_id, filename)
save_user_file(reg, user_id, filename, total_chunks) ==
  {r \in reg : ~(r.user_id = user_id /\ r.filename = filename)}
    \cup {[user_id |-> user_id, filename |-> filename,
           total_chunks |-> total_chunks]}

\* The loop that registers each uploaded file with its chunk count.
RECURSIVE RegisterFiles(_, _, _, _, _, _)
RegisterFiles(reg, user_id, files, all_chunks, fault, i) ==
  IF i > Len(files) THEN reg
  ELSE
    LET chunks_count ==
          Len(SelectSeq(all_chunks,
                        LAMBDA c : c.metadata.filename = files[i]))
        written == ~(fault.kind = "db_write" /\ fault.at = i)
    IN RegisterFiles(
         IF written
         THEN save_user_file(reg, user_id, files[i], chunks_count)
         ELSE reg,
         user_id, files, all_chunks, fault, i + 1)

\* FileUploadView.post for an authenticated user.
\* Returns [st, reg, status, temps].
file_upload(st, reg, user_id, files, docs, fault) ==
  LET b == BlobLoop(files, docs, fault)
  IN
  IF b.status # "ok"
  THEN [st |-> st, reg |-> reg, status |-> b.status, temps |-> b.temps]
  ELSE
    LET user_files_read ==
          IF fault.kind = "db_read" THEN {}
          ELSE {r.filename : r \in {x \in reg : x.user_id = user_id}}
        valid_filenames == user_files_read \cup Range(files)
        t == delete_temp_files_by_user(st, user_id, Present(valid_filenames),
                                       VsOutcome(fault, 1))
    IN IF t.raised
       THEN [st |-> t.st, reg |-> reg, status |-> "error",
             temps |-> b.temps]
       ELSE
         LET p == ProcessFiles([st |-> t.st, all_chunks |-> <<>>,
                                raised |-> FALSE, temps |-> b.temps],
                               user_id, files, docs, fault, 1)
         IN IF p.raised
            THEN [st |-> p.st, reg |-> reg, status |-> "error",
                  temps |-> p.temps]
            ELSE
              LET reg2 == RegisterFiles(reg, user_id, files, p.all_chunks,
                                        fault, 1)
                  a == IF p.all_chunks # <<>>
                       THEN add_documents(p.st, p.all_chunks,
                                          VsOutcome(fault, AddCallNo))
                       ELSE Returned(p.st)
              IN [st |-> a.st, reg |-> reg2,
                  status |-> IF a.raised THEN "error" ELSE "ok",
                  temps |-> p.temps]

\* ChatSendView.post past the natural-language shortcut: the chunks handed
\* to generate_answer, and which reply path was taken.
chat_send(st, user_id, message, selected_file, score_ok) ==
  IF StatsTotalChunks(st, user_id) = 0
  THEN [context |-> <<>>, status |-> "no_documents"]
  ELSE
    LET search_results ==
          search(st, message, SEARCH_TOP_K, selected_file, user_id)
    IN IF search_results = <<>>
       THEN [context |-> <<>>, status |-> "no_results"]
       ELSE
         LET expanded_results ==
               get_adjacent_chunks(st, search_results, PAGE_RANGE)
         IN [context |-> rerank(message, expanded_results, RERANK_TOP_K,
                                score_ok),
             status |-> "answered"]

\* ------------------------------------------------------------------------
\* Specification SpecApi: the HTTP requests, one at a time, on the shared
\* VectorStore and the file registry.
\* ------------------------------------------------------------------------
UploadLists(maxFiles) ==
  {fs \in SeqsUpTo(UploadNames, maxFiles) :
     \A i, j \in 1..Len(fs) : i # j => fs[i] # fs[j]}

InitApi ==
  /\ HAS_AI_LIBS = TRUE
  /\ encoder = TRUE
  /\ index = <<>>
  /\ metadata = <<>>
  /\ metadata_by_file = EmptyFileIndex
  /\ disk_index = Absent
  /\ disk_meta = Absent
  /\ faulted = FALSE
  /\ last_op = NoOp
  /\ results = <<>>
  /\ ConcIdle
  /\ user_files = {}
  /\ reranker_model \in BOOLEAN
  /\ context = <<>>
  /\ uploads = 0
  /\ UnitIdle
  /\ UploadIdle
  /\ GenIdle
  /\ OpsIdle

\* FileUploadView.post: one request whose file names are one of `lists`,
\* while fewer than maxUploads requests have been made.  upload_req is a
\* history variable: it keeps the request where `observed` says that the
\* properties read it, and nothing of the program depends on it.
UploadOf(lists, maxUploads, observed) ==
  /\ uploads < maxUploads
  /\ \E u \in Users, files \in lists :
    \E docs \in [1..Len(files) -> UploadedDocs],
       fault \in UploadFaults(Len(files)) :
      /\ fault.kind # "none" => ~faulted
      /\ \E r \in {file_upload(Store, user_files, u, files, docs, fault)} :
         /\ uploads' = uploads + 1
         /\ faulted' = (faulted \/ fault.kind # "none")
         /\ Len(r.st.metadata) <= MaxApiChunks
         /\ SetStore(r.st)
         /\ user_files' = r.reg
         /\ last_op' = Op("file_upload", r.status, u, None)
         /\ results' = <<>>
         /\ context' = <<>>
         /\ temp_files' =
              temp_files \cup {<<uploads + 1, i>> : i \in r.temps}
         /\ upload_req' = IF observed
                           THEN [files |-> files, docs |-> docs,
                                 fault |-> fault, before |-> metadata]
                           ELSE NoUpload
         /\ UNCHANGED <<modeVars, concVars, reranker_model, unitVars,
                        genVars, opsVars>>

\* The request with at most maxFiles files, each with a name of its own.
Upload(maxFiles, maxUploads, observed) ==
  UploadOf(UploadLists(maxFiles), maxUploads, observed)

FileUpload == Upload(MaxUploadFiles, MaxUploads, FALSE)

NextApi ==
  \/ FileUpload

SpecApi == InitApi /\ [][NextApi]_vars

\* ------------------------------------------------------------------------
\* Specification SpecReupload: the /files/upload requests of SpecApi, each
\* recorded with its files and the store it found.
\* ------------------------------------------------------------------------
FileUploadObserved == Upload(MaxUploadFiles, MaxUploads, TRUE)

NextReupload ==
  \/ FileUploadObserved

SpecReupload == InitApi /\ [][NextReupload]_vars

\* ------------------------------------------------------------------------
\* Specification SpecSameName: one /files/upload request of several files,
\* where the files of the request can have the same name.
\* ------------------------------------------------------------------------
FileUploadAnyNames ==
  UploadOf(SeqsUpTo(UploadNames, MaxRequestFiles), 1, TRUE)

NextSameName ==
  \/ FileUploadAnyNames

SpecSameName == InitApi /\ [][NextSameName]_vars

\* ------------------------------------------------------------------------
\* Specification SpecUpload: one /files/upload request of several files on
\* the empty VectorStore and registry.
\* ------------------------------------------------------------------------
FileUploadMany == Upload(MaxRequestFiles, 1, TRUE)

NextUpload ==
  \/ FileUploadMany

InitUpload ==
  /\ InitApi
  /\ reranker_model = FALSE

SpecUpload == InitUpload /\ [][NextUpload]_vars

\* ------------------------------------------------------------------------
\* The chat log: Database.create_chat_session, save_chat_message,
\* get_session_messages
\* ------------------------------------------------------------------------
MaxTurns == 1
MaxChatStore == 2

SessionIds == {"s1"}
Messages == {"q1", "hello", ""}

\* The messages of a single request: those, a greeting with a capital and
\* punctuation, a greeting followed by more words, and a string of typed
\* noise.
AllMessages == Messages \cup {"Hello!", "hi there", "fdfgfgf"}

\* The characters of each message ("SP" is the space).
MessageChars ==
  [m \in AllMessages |->
     CASE m = "q1" -> <<"q", "1">>
       [] m = "hello" -> <<"h", "e", "l", "l", "o">>
       [] m = "Hello!" -> <<"H", "e", "l", "l", "o", "!">>
       [] m = "hi there" -> <<"h", "i", "SP", "t", "h", "e", "r", "e">>
       [] m = "fdfgfgf" -> <<"f", "d", "f", "g", "f", "g", "f">>
       [] OTHER -> <<>>]

UpperLetters ==
  <<"A", "B", "C", "D", "E", "F", "G", "H", "I", "J", "K", "L", "M", "N",
    "O", "P", "Q", "R", "S", "T", "U", "V", "W", "X", "Y", "Z">>

LowerLetters ==
  <<"a", "b", "c", "d", "e", "f", "g", "h", "i", "j", "k", "l", "m", "n",
    "o", "p", "q", "r", "s", "t", "u", "v", "w", "x", "y", "z">>

\* str.lower() on one character
ToLower(c) ==
  IF \E i \in 1..Len(UpperLetters) : UpperLetters[i] = c
  THEN LowerLetters[CHOOSE i \in 1..Len(UpperLetters) : UpperLetters[i] = c]
  ELSE c

\* \d, \w and \s of the regular expressions
IsDigit(c) == c \in {"0", "1", "2", "3", "4", "5", "6", "7", "8", "9"}
IsWordChar(c) == ToLower(c) \in LowerAlnum
IsSpace(c) == c \in Spaces

\* normalize_text: lower().strip(), then re.sub(r'[^\w\s]', '', text)
normalize_text(text) ==
  SelectSeq(strip([i \in 1..Len(text) |-> ToLower(text[i])]),
            LAMBDA c : IsWordChar(c) \/ IsSpace(c))

\* The text of the canned replies.  The keys "chào", "hello", "hi" and
\* "chào bạn" of NATURAL_RESPONSES share one text, as do "cảm ơn", "thanks"
\* and "thank you", and "tạm biệt", "bye" and "goodbye".
NATURAL_RESPONSES ==
  [k \in {<<"h", "e", "l", "l", "o">>, <<"h", "i">>,
          <<"t", "h", "a", "n", "k", "s">>, <<"b", "y", "e">>} |->
     CASE k = <<"h", "e", "l", "l", "o">> -> "greeting"
       [] k = <<"h", "i">> -> "greeting"
       [] k = <<"t", "h", "a", "n", "k", "s">> -> "thanks"
       [] k = <<"b", "y", "e">> -> "goodbye"]

\* re.match(r'^(w1|w2|...)(\s+|$)', text)
MatchesWordThenSpaceOrEnd(text, words) ==
  \E w \in words :
    /\ Len(text) >= Len(w)
    /\ SubSeq(text, 1, Len(w)) = w
    /\ (Len(text) = Len(w) \/ IsSpace(text[Len(w) + 1]))

\* get_natural_response on the characters of the query: the canned reply
\* of a greeting, or None
NaturalResponseOf(text) ==
  LET normalized == normalize_text(text)
  IN IF normalized \in DOMAIN NATURAL_RESPONSES
     THEN NATURAL_RESPONSES[normalized]
     ELSE IF MatchesWordThenSpaceOrEnd(normalized,
               {<<"h", "e", "l", "l", "o">>, <<"h", "i">>})
     THEN "greeting"
     ELSE IF MatchesWordThenSpaceOrEnd(normalized,
               {<<"t", "h", "a", "n", "k", "s">>})
     THEN "thanks"
     ELSE IF MatchesWordThenSpaceOrEnd(normalized,
               {<<"b", "y", "e">>, <<"g", "o", "o", "d", "b", "y", "e">>})
     THEN "goodbye"
     ELSE None

\* get_natural_response of each message
NaturalResponses ==
  [m \in AllMessages |-> NaturalResponseOf(MessageChars[m])]

get_natural_response(message) == NaturalResponses[message]

\* The longest run of one character: max_consecutive
RECURSIVE MaxRun(_, _, _)
MaxRun(text, run, best) ==
  IF Len(text) < 2 THEN best
  ELSE LET r == IF text[2] = text[1] THEN run + 1 ELSE 1
       IN MaxRun(Tail(text), r, IF r > best THEN r ELSE best)

\* char_counts.most_common(1)[0][1]
MostCommonCount(text) ==
  LET count(c) == Cardinality({i \in 1..Len(text) : text[i] = c})
  IN IF text = <<>> THEN 0
     ELSE CHOOSE n \in 1..Len(text) :
            /\ \E c \in Range(text) : count(c) = n
            /\ \A c \in Range(text) : count(c) <= n

\* is_meaningless_query up to its repetition-ratio rules.  The rules after
\* them (repeated substrings, word lists, keyboard patterns) return False
\* on each message of AllMessages.
is_meaningless_query(query) ==
  LET text == strip(query)
      clean_text == SelectSeq([i \in 1..Len(text) |-> ToLower(text[i])],
                              LAMBDA c : IsWordChar(c) /\ ~IsDigit(c))
      n == Len(clean_text)
  IN IF Len(text) < 3 THEN FALSE
     ELSE IF \A i \in 1..Len(text) : IsDigit(text[i]) \/ ~IsWordChar(text[i])
     THEN TRUE
     ELSE IF n < 3 THEN TRUE
     ELSE IF MaxRun(clean_text, 1, 1) >= 3 THEN TRUE
     ELSE IF 2 * MostCommonCount(clean_text) >= n /\ n >= 4 THEN TRUE
     ELSE IF 10 * MostCommonCount(clean_text) > 4 * n /\ n >= 6 THEN TRUE
     ELSE FALSE

\* secrets.token_urlsafe(16): an id no session has yet
FreshSessionIds == SessionIds \ {x.session_id : x \in chat_sessions}

FreshSessionId == CHOOSE x \in FreshSessionIds : TRUE

\* What can fail in one chat request: nothing, the insert of the session,
\* the insert of the turn, a read of the database, the retrieval (encode or
\* index search raises), the reranker's compute_score.
ChatFaults ==
  {"none", "create_error", "save_error", "search_error", "score_error"}

\* get_session_messages: find({"session_id": id}).sort("timestamp", 1)
get_session_messages(history, session_id) ==
  LET found == SelectSeq(history, LAMBDA t : t.session_id = session_id)
  IN SortByKeys(found, [i \in 1..Len(found) |-> found[i].timestamp])

\* create_chat_session: the document a new session starts as
NewChatSession(session_id, user_id) ==
  [session_id |-> session_id, user_id |-> user_id,
   title |-> "Cuoc tro chuyen moi", message_count |-> 0]

\* update_session: update_one({"session_id": session_id},
\* {"$set": {title}, "$inc": {"message_count": 1}})
update_session(docs, session_id, title) ==
  {IF x.session_id = session_id
   THEN [x EXCEPT !.title = title, !.message_count = @ + 1]
   ELSE x : x \in docs}

\* The statements that follow a reply in ChatSendView.post:
\* create_chat_session when the request names no session, then
\* save_chat_message, then update_session when there is a session id.
\* Gives [sessions, history, chat_session_id].
persist_turn(user_id, message, reply, selected_file, chat_session_id, fault) ==
  LET created == chat_session_id = None /\ fault # "create_error"
      sid == IF chat_session_id # None THEN chat_session_id
             ELSE IF created THEN FreshSessionId ELSE None
      inserted == IF created
                  THEN chat_sessions \cup {NewChatSession(sid, user_id)}
                  ELSE chat_sessions
  IN [sessions |-> IF sid # None
                   THEN update_session(inserted, sid, message)
                   ELSE inserted,
      history |-> IF fault = "save_error" THEN chat_history
                  ELSE Append(chat_history,
                              [user_id |-> user_id, message |-> message,
                               response |-> reply,
                               selected_file |-> selected_file,
                               session_id |-> sid, timestamp |-> clock]),
      chat_session_id |-> sid]

NotFoundReply(selected_file) ==
  [kind |-> "not_found", file |-> selected_file]

Reply(kind) == [kind |-> kind, file |-> None]

\* The reply path with get_stats asked before the greeting table.
chat_reply_StatsFirst(st, user_id, message, selected_file, fault) ==
  IF message = "" THEN [context |-> <<>>, status |-> "bad_request"]
  ELSE IF StatsTotalChunks(st, user_id) = 0
  THEN [context |-> <<>>, status |-> "no_documents"]
  ELSE IF get_natural_response(message) # None
  THEN [context |-> <<>>, status |-> "natural"]
  ELSE IF fault = "search_error"
  THEN [context |-> <<>>, status |-> "error"]
  ELSE chat_send(st, user_id, message, selected_file,
                 fault # "score_error")

\* The reply path ChatSendView.post takes, with the chunks it hands to
\* generate_answer on the last one.
chat_reply(st, user_id, message, selected_file, fault) ==
  IF message = "" THEN [context |-> <<>>, status |-> "bad_request"]
  ELSE IF get_natural_response(message) # None
  THEN [context |-> <<>>, status |-> "natural"]
  ELSE IF StatsTotalChunks(st, user_id) = 0
  THEN [context |-> <<>>, status |-> "no_documents"]
  ELSE IF fault = "search_error"
  THEN [context |-> <<>>, status |-> "error"]
  ELSE chat_send(st, user_id, message, selected_file,
                 fault # "score_error")

\* The calls of ChatSendView.post to the filter, the VectorStore, the
\* Reranker and the LLM on each reply path.
ChatCalls(status) ==
  CASE status = "bad_request" -> {}
    [] status = "natural" -> {"get_natural_response"}
    [] status = "no_documents" -> {"get_natural_response", "get_stats"}
    [] status \in {"error", "no_results"} ->
         {"get_natural_response", "get_stats", "search"}
    [] status = "answered" ->
         {"get_natural_response", "get_stats", "search",
          "get_adjacent_chunks", "rerank", "generate_answer"}

\* ChatSendView.post with a message of msgs.  u is the user of the
\* request's login session (None when there is none).
ChatSendOf(msgs) ==
  \E u \in Owners, message \in msgs, f \in {None, "tmp1.pdf"},
     sid \in SessionIds \cup {None}, fault \in ChatFaults :
    /\ wrote
    /\ \E r \in {chat_reply(Store, u, message, f, fault)} :
      LET reply == IF r.status = "natural"
                   THEN Reply(get_natural_response(message))
                   ELSE IF r.status = "no_documents"
                   THEN Reply("no_documents")
                   ELSE IF r.status = "no_results" THEN NotFoundReply(f)
                   ELSE Reply("answer")
          saves == /\ r.status \in {"natural", "no_results", "answered"}
                   /\ u # None
      IN /\ context' = r.context
         /\ last_op' = Op("chat_send", r.status, u, f)
         /\ chat_trace' = [message |-> message,
                           calls |-> ChatCalls(r.status)]
         /\ results' = <<>>
         /\ IF saves
            THEN /\ Len(chat_history) < MaxTurns
                 /\ sid = None => FreshSessionIds # {}
                 /\ \A x \in chat_sessions :
                      x.session_id = sid => x.message_count < MaxTurns
                 /\ \E p \in {persist_turn(u, message, reply, f, sid,
                                           fault)} :
                      /\ chat_sessions' = p.sessions
                      /\ chat_history' = p.history
                      /\ wrote' = (p.sessions # chat_sessions
                                     \/ p.history # chat_history)
                      /\ response' =
                           [code |-> 200, message |-> message,
                            response |-> reply,
                            chat_session_id |-> p.chat_session_id]
                 /\ clock' = clock + 1
            ELSE /\ UNCHANGED <<chat_sessions, chat_history, clock>>
                 /\ wrote' = FALSE
                 /\ response' =
                      IF r.status = "bad_request" THEN [code |-> 400]
                      ELSE IF r.status = "error" THEN [code |-> 500]
                      ELSE IF r.status = "no_documents"
                      THEN [code |-> 200, message |-> message,
                            response |-> reply]
                      ELSE [code |-> 200, message |-> message,
                            response |-> reply, chat_session_id |-> sid]
         /\ UNCHANGED <<storeVars, diskVars, modeVars, faulted, concVars,
                        user_files, reranker_model, uploads, adjacent_args,
                        chatConcVars, uploadVars,
                   genVars, opsVars>>

ChatSend == ChatSendOf(Messages)

\* CreateChatSessionView.post
CreateChatSession ==
  \E u \in Owners, db \in {"ok", "create_error"} :
    /\ wrote
    /\ FreshSessionIds # {}
    /\ wrote' = (u # None /\ db = "ok")
    /\ last_op' = Op("create_chat_session",
                     IF u = None THEN "unauthorized"
                     ELSE IF db = "ok" THEN "ok" ELSE "error",
                     u, None)
    /\ chat_sessions' =
         IF u # None /\ db = "ok"
         THEN chat_sessions \cup {NewChatSession(FreshSessionId, u)}
         ELSE chat_sessions
    /\ response' = IF u = None THEN [code |-> 401]
                   ELSE IF db = "ok"
                   THEN [code |-> 200, chat_session_id |-> FreshSessionId]
                   ELSE [code |-> 500]
    /\ results' = <<>>
    /\ context' = <<>>
    /\ UNCHANGED <<storeVars, diskVars, modeVars, faulted, concVars,
                   user_files, reranker_model, uploads, adjacent_args,
                   chat_history, clock, chat_trace, chatConcVars,
                   uploadVars,
                   genVars, opsVars>>

\* ChatHistoryView.get for the session id of the URL
ChatHistory ==
  \E u \in Owners, sid \in SessionIds, db \in {"ok", "read_error"} :
    /\ wrote
    /\ wrote' = FALSE
    /\ last_op' = Op("chat_history",
                     IF u = None THEN "unauthorized" ELSE "ok", u, sid)
    /\ response' =
         IF u = None THEN [code |-> 401]
         ELSE [code |-> 200,
               messages |-> IF db = "ok"
                            THEN get_session_messages(chat_history, sid)
                            ELSE <<>>]
    /\ results' = <<>>
    /\ context' = <<>>
    /\ UNCHANGED <<storeVars, diskVars, modeVars, faulted, concVars,
                   user_files, reranker_model, uploads, adjacent_args,
                   chat_sessions, chat_history, clock, chat_trace,
                   chatConcVars, uploadVars,
                   genVars, opsVars>>

\* ------------------------------------------------------------------------
\* Specification SpecChat: the chat requests, one at a time, on a store
\* that uploads have filled.  A request that writes nothing leaves the
\* database as it found it, so the requests that can follow it are the
\* requests that could have come in its place: they are explored from the
\* state before it (wrote).
\* ------------------------------------------------------------------------
UploadedEntries ==
  {MetaEntry(c) : c \in {x \in OwnedChunks : x.metadata.filename = "a.pdf"}}

SameFile(a, b) == a.user_id = b.user_id /\ a.filename = b.filename

\* The stores that /files/upload requests leave: the chunks of one file of
\* one user stand together, in page order, each page once.
UploadedStores ==
  {<<>>} \cup
  {s \in SeqsUpTo(UploadedEntries, MaxChatStore) :
     \A i, j \in 1..Len(s) :
       (i < j /\ SameFile(s[i], s[j]))
         => /\ s[i].page_number < s[j].page_number
            /\ \A k \in i..j : SameFile(s[i], s[k])}

InitChat ==
  /\ HAS_AI_LIBS = TRUE
  /\ encoder = TRUE
  /\ metadata \in UploadedStores
  /\ index = EncodeAll([i \in 1..Len(metadata) |-> metadata[i].text])
  /\ metadata_by_file = BuildFileIndex(metadata)
  /\ disk_index = Present(index)
  /\ disk_meta = Present(metadata)
  /\ faulted = FALSE
  /\ last_op = NoOp
  /\ results = <<>>
  /\ ConcIdle
  /\ user_files = {}
  /\ reranker_model \in BOOLEAN
  /\ context = <<>>
  /\ uploads = 0
  /\ UnitIdle
  /\ UploadIdle
  /\ GenIdle
  /\ OpsIdle

NextChat ==
  \/ ChatSend
  \/ CreateChatSession
  \/ ChatHistory

SpecChat == InitChat /\ [][NextChat]_vars

\* ------------------------------------------------------------------------
\* Specification SpecShortcut: one /chat/send request on a store that
\* uploads have filled, its message any of AllMessages.
\* ------------------------------------------------------------------------
ChatSendOnce ==
  /\ last_op = NoOp
  /\ ChatSendOf(AllMessages)

SpecShortcut == InitChat /\ [][ChatSendOnce]_vars

\* ------------------------------------------------------------------------
\* Specification SpecChatConc: two /chat/send requests of logged-in users
\* on the chat session "s1", each run by its own worker thread.  The steps
\* of ChatSendView.post are its calls: the retrieval, generate_answer and
\* save_chat_message.
\* ------------------------------------------------------------------------
SharedSession == "s1"

SetRequest(r, pc, reply) ==
  chat_reqs' = [chat_reqs EXCEPT ![r].pc = pc, ![r].reply = reply]

ChatConcFrame ==
  UNCHANGED <<storeVars, diskVars, modeVars, faulted, last_op, results,
              concVars, user_files, reranker_model, context, uploads,
              adjacent_args, chat_sessions, wrote, response, chat_trace,
              uploadVars,
                   genVars, opsVars>>

\* The request reaches the view: message and login session are read, and
\* a greeting gets its canned reply.
Arrive(r) ==
  \E u \in Users, message \in {"q1", "hello"} :
    /\ chat_reqs[r].pc = "idle"
    /\ arrivals' = Append(arrivals, r)
    /\ chat_reqs' =
         [chat_reqs EXCEPT ![r] =
            [pc |-> IF get_natural_response(message) # None
                    THEN "persist" ELSE "retrieve",
             user |-> u, message |-> message,
             reply |-> IF get_natural_response(message) # None
                       THEN Reply(get_natural_response(message))
                       ELSE IdleRequest.reply]]
    /\ UNCHANGED <<chat_history, clock>>
    /\ ChatConcFrame

\* get_stats, search, get_adjacent_chunks, rerank
Retrieve(r) ==
  /\ chat_reqs[r].pc = "retrieve"
  /\ \E rr \in {chat_send(Store, chat_reqs[r].user, chat_reqs[r].message,
                          None, TRUE)} :
       CASE rr.status = "no_documents" ->
              SetRequest(r, "done", Reply("no_documents"))
         [] rr.status = "no_results" ->
              SetRequest(r, "persist", NotFoundReply(None))
         [] rr.status = "answered" ->
              SetRequest(r, "answer", chat_reqs[r].reply)
  /\ UNCHANGED <<chat_history, clock, arrivals>>
  /\ ChatConcFrame

\* generate_answer: the call of the LLM provider returns
Answer(r) ==
  /\ chat_reqs[r].pc = "answer"
  /\ SetRequest(r, "persist", Reply("answer"))
  /\ UNCHANGED <<chat_history, clock, arrivals>>
  /\ ChatConcFrame

\* save_chat_message: the turn gets the time of the insert
Persist(r) ==
  /\ chat_reqs[r].pc = "persist"
  /\ chat_history' =
       Append(chat_history,
              [user_id |-> chat_reqs[r].user,
               message |-> chat_reqs[r].message,
               response |-> chat_reqs[r].reply,
               selected_file |-> None,
               session_id |-> SharedSession, timestamp |-> clock])
  /\ clock' = clock + 1
  /\ SetRequest(r, "done", chat_reqs[r].reply)
  /\ UNCHANGED arrivals
  /\ ChatConcFrame

NextChatConc ==
  \E r \in ChatRequests :
    \/ Arrive(r)
    \/ Retrieve(r)
    \/ Answer(r)
    \/ Persist(r)

SpecChatConc == InitChat /\ [][NextChatConc]_vars

\* ------------------------------------------------------------------------
\* Specification SpecConc: two request threads of the multi-threaded server
\* each run one VectorStore mutation on the shared singleton, statement by
\* statement, while a third request may run a search.  The source takes no
\* lock, so the steps of the two calls interleave freely.
\* ------------------------------------------------------------------------
MaxConcStore == 1

\* The requests of SpecConc work on the file a.pdf of the two users: a batch
\* is the chunks of a PDF of one or two pages.
ConcEntries ==
  {m \in StoredEntries : m.filename = "a.pdf" /\ m.user_id \in Users}

ConcStores == {<<>>} \cup SeqsUpTo(ConcEntries, MaxConcStore)

ConcBatches ==
  {b \in Batches :
     /\ b # <<>>
     /\ \A i \in 1..Len(b) :
          b[i].metadata.filename = "a.pdf" /\ b[i].metadata.page_number = i}

ConcValidArgs == {Absent, Present({"tmp1.pdf"})}

ConcCalls ==
  {[IdleThread EXCEPT !.pc = "add_embed", !.op = "add_documents",
                      !.chunks = b] : b \in ConcBatches}
  \cup
  {[IdleThread EXCEPT !.pc = "del_scan", !.op = "delete_by_filename",
                      !.filename = "a.pdf", !.user = u] : u \in Users}
  \cup
  {[IdleThread EXCEPT !.pc = "del_scan", !.op = "delete_temp_files_by_user",
                      !.user = u, !.valid = v] :
     u \in Users, v \in ConcValidArgs}
  \cup
  {[IdleThread EXCEPT !.pc = "reset", !.op = "clear_all"]}

InitConc ==
  /\ HAS_AI_LIBS = TRUE
  /\ encoder = TRUE
  /\ metadata \in ConcStores
  /\ index = EncodeAll([i \in 1..Len(metadata) |-> metadata[i].text])
  /\ metadata_by_file = BuildFileIndex(metadata)
  /\ disk_index = Present(index)
  /\ disk_meta = Present(metadata)
  /\ faulted = FALSE
  /\ last_op = NoOp
  /\ results = <<>>
  /\ search_view = NoView
  /\ threads = [t \in Threads |-> IdleThread]
  /\ base = [index |-> index, metadata |-> metadata,
             metadata_by_file |-> metadata_by_file]
  /\ ApiIdle

ThreadStep(t, th) ==
  /\ threads' = [threads EXCEPT ![t] = th]
  /\ UNCHANGED <<modeVars, faulted, last_op, results, search_view, base,
                 apiVars>>

\* A request enters a VectorStore mutation.
Begin(t) ==
  \E call \in ConcCalls :
    /\ threads[t].pc = "idle"
    /\ ThreadStep(t, call)
    /\ UNCHANGED <<storeVars, diskVars>>

\* add_documents: encode the texts, self.index.add(embeddings)
AddEmbed(t) ==
  LET th == threads[t]
      texts == [i \in 1..Len(th.chunks) |-> th.chunks[i].text]
  IN /\ th.pc = "add_embed"
     /\ index' = index \o EncodeAll(texts)
     /\ ThreadStep(t, [th EXCEPT !.pc = "add_meta", !.i = 1])
     /\ UNCHANGED <<metadata, metadata_by_file, diskVars>>

\* add_documents: one iteration of `for chunk in chunks`
AddMeta(t) ==
  LET th == threads[t]
      e == MetaEntry(th.chunks[th.i])
  IN /\ th.pc = "add_meta"
     /\ metadata' = Append(metadata, e)
     /\ metadata_by_file' = AppendToFileIndex(metadata_by_file, <<e>>)
     /\ ThreadStep(t, [th EXCEPT
                         !.pc = IF th.i = Len(th.chunks)
                                THEN "save" ELSE "add_meta",
                         !.i = th.i + 1])
     /\ UNCHANGED <<index, diskVars>>

\* delete_*: indices_to_keep and new_metadata are read from self.metadata
DelScan(t) ==
  LET th == threads[t]
      kept == IF th.op = "delete_by_filename"
              THEN SelectSeq(metadata, LAMBDA m :
                     KeepOnDeleteByFilename(m, th.filename, th.user))
              ELSE SelectSeq(metadata, LAMBDA m :
                     KeepOnDeleteTemp(m, th.user, th.valid))
  IN /\ th.pc = "del_scan"
     /\ ThreadStep(t, [th EXCEPT
                         !.pc = IF Len(kept) = Len(metadata)
                                THEN "done" ELSE "reset",
                         !.kept = kept])
     /\ UNCHANGED <<storeVars, diskVars>>

\* _create_new_index, in delete_* and in clear_all
Reset(t) ==
  LET th == threads[t]
  IN /\ th.pc = "reset"
     /\ index' = <<>>
     /\ metadata' = <<>>
     /\ metadata_by_file' = EmptyFileIndex
     /\ ThreadStep(t, [th EXCEPT
                         !.pc = IF th.kept = <<>> THEN "save"
                                ELSE "del_embed"])
     /\ UNCHANGED diskVars

\* delete_*: re-encode the kept texts, self.index.add(embeddings)
DelEmbed(t) ==
  LET th == threads[t]
      texts == [i \in 1..Len(th.kept) |-> th.kept[i].text]
  IN /\ th.pc = "del_embed"
     /\ index' = index \o EncodeAll(texts)
     /\ ThreadStep(t, [th EXCEPT !.pc = "del_assign"])
     /\ UNCHANGED <<metadata, metadata_by_file, diskVars>>

\* delete_*: self.metadata = new_metadata; self._build_file_index()
DelAssign(t) ==
  LET th == threads[t]
  IN /\ th.pc = "del_assign"
     /\ metadata' = th.kept
     /\ metadata_by_file' = BuildFileIndex(th.kept)
     /\ ThreadStep(t, [th EXCEPT !.pc = "save"])
     /\ UNCHANGED <<index, diskVars>>

\* save_index, of whatever the index and the metadata list hold by now
Save(t) ==
  LET th == threads[t]
  IN /\ th.pc = "save"
     /\ disk_index' = Present(index)
     /\ disk_meta' = Present(metadata)
     /\ ThreadStep(t, [th EXCEPT !.pc = "done"])
     /\ UNCHANGED storeVars

\* A search request runs while the mutations are in flight.
ConcSearch ==
  \E q \in Queries :
    /\ last_op.op = "init"
    /\ \E t \in Threads : threads[t].pc \notin {"idle", "done"}
    /\ results' = search(Store, q, MaxBatch, None, None)
    /\ last_op' = Op("search", "ok", None, None)
    /\ search_view' = [ntotal |-> Len(index), nmeta |-> Len(metadata)]
    /\ UNCHANGED <<storeVars, diskVars, modeVars, faulted, threads, base, apiVars>>

NextConc ==
  \/ \E t \in Threads : Begin(t)
  \/ \E t \in Threads : AddEmbed(t)
  \/ \E t \in Threads : AddMeta(t)
  \/ \E t \in Threads : DelScan(t)
  \/ \E t \in Threads : Reset(t)
  \/ \E t \in Threads : DelEmbed(t)
  \/ \E t \in Threads : DelAssign(t)
  \/ \E t \in Threads : Save(t)
  \/ ConcSearch

SpecConc == InitConc /\ [][NextConc]_vars

\* The store after running a call alone, start to end.
RunAlone(st, call) ==
  LET full == [index |-> st.index, metadata |-> st.metadata,
               metadata_by_file |-> st.metadata_by_file,
               disk_index |-> Absent, disk_meta |-> Absent]
      after ==
        CASE call.op = "add_documents" ->
               add_documents(full, call.chunks, "ok").st
          [] call.op = "delete_by_filename" ->
               delete_by_filename(full, call.filename, call.user, "ok").st
          [] call.op = "delete_temp_files_by_user" ->
               delete_temp_files_by_user(full, call.user, call.valid, "ok").st
          [] OTHER -> clear_all(full, "ok").st
  IN [index |-> after.index, metadata |-> after.metadata,
      metadata_by_file |-> after.metadata_by_file]

SerialOutcomes ==
  {RunAlone(RunAlone(base, threads[t]), threads[u]) :
     <<t, u>> \in {<<1, 2>>, <<2, 1>>}}

AllDone == \A t \in Threads : threads[t].pc = "done"

\* ------------------------------------------------------------------------
\* generate_answer: the grouped context, the LLM call, the completeness
\* retry and the fallback models
\* ------------------------------------------------------------------------
MaxContext == 2

\* get_llm_client: the model of the Groq client
llm_model == "llama-3.3-70b-versatile"
fallback_models ==
  <<"mistral-saba-24b", "llama-3.1-8b-instant", "llama-3.1-70b-versatile">>
MAX_TOKENS == 4096
RETRY_MAX_TOKENS == 8192

\* The chunks handed to generate_answer; it reads their filename,
\* page_number and text.
ContextChunks ==
  {[text |-> "t1", filename |-> "a.pdf", page_number |-> 2],
   [text |-> "t2", filename |-> "a.pdf", page_number |-> 1],
   [text |-> "t1", filename |-> "tmp1.pdf", page_number |-> 1],
   [text |-> "t2", filename |-> "a.pdf", page_number |-> 2]}

Contexts == {<<>>} \cup SeqsUpTo(ContextChunks, MaxContext)

\* key = f"{filename}_page_{page}"
PageKey(c) == <<c.filename, c.page_number>>

\* key=lambda k: (filename, page) as one integer
PageKeyRank(k) == FileRank(k[1]) * 100 + k[2]

\* The keys of context_by_file, in insertion order.
RECURSIVE FirstKeys(_, _)
FirstKeys(seen, chunks) ==
  IF chunks = <<>> THEN seen
  ELSE FirstKeys(IF PageKey(Head(chunks)) \in Range(seen) THEN seen
                 ELSE Append(seen, PageKey(Head(chunks))),
                 Tail(chunks))

sorted_keys(chunks) ==
  LET ks == FirstKeys(<<>>, chunks)
  IN SortByKeys(ks, [i \in 1..Len(ks) |-> PageKeyRank(ks[i])])

\* context_text: one part per key in sorted order, each part the texts of
\* the key's chunks in the order they came, joined by " "; the parts are
\* joined by the separator line.
context_text(chunks) ==
  LET ks == sorted_keys(chunks)
  IN [i \in 1..Len(ks) |->
        LET g == SelectSeq(chunks, LAMBDA c : PageKey(c) = ks[i])
        IN [j \in 1..Len(g) |-> g[j].text]]

\* A reply of the LLM is a sequence of tokens: the words "nhu", "sau",
\* "bao", "gom", "cu", "the" (the Vietnamese words of the patterns, written
\* without their marks), the colon, the space "SP", the newline "NL" and
\* one other character "x".

\* The number of characters of a token.
TokenLen(t) ==
  IF t \in {"nhu", "sau", "bao", "gom", "the"} THEN 3
  ELSE IF t = "cu" THEN 2
  ELSE 1

\* len(text)
RECURSIVE CharLen(_)
CharLen(text) ==
  IF text = <<>> THEN 0 ELSE TokenLen(Head(text)) + CharLen(Tail(text))

\* str.endswith(suffix)
endswith(text, suffix) ==
  /\ Len(text) >= Len(suffix)
  /\ SubSeq(text, Len(text) - Len(suffix) + 1, Len(text)) = suffix

\* len(text.split('\n'))
SplitLines(text) == 1 + Cardinality({i \in 1..Len(text) : text[i] = "NL"})

\* any(incomplete_patterns)
incomplete_patterns(answer_clean) ==
  \/ endswith(answer_clean, <<"nhu", "SP", "sau", ":">>)
  \/ endswith(answer_clean, <<"nhu", "SP", "sau">>)
  \/ endswith(answer_clean, <<"bao", "SP", "gom", ":">>)
  \/ endswith(answer_clean, <<"bao", "SP", "gom">>)
  \/ endswith(answer_clean, <<"cu", "SP", "the", ":">>)
  \/ endswith(answer_clean, <<"cu", "SP", "the">>)
  \/ endswith(answer_clean, <<"gom", ":">>)
  \/ (endswith(answer_clean, <<":">>) /\ SplitLines(answer_clean) < 3)

\* The texts the LLM can reply with.
ReplyTexts ==
  {<<>>,
   <<"x">>,
   <<"x", "SP", "nhu", "SP", "sau", ":">>,
   <<"x", "SP", "nhu", "SP", "sau">>,
   <<"x", "SP", "bao", "SP", "gom", ":">>,
   <<"x", "SP", "cu", "SP", "the", ":">>,
   <<"x", "SP", "gom", ":">>,
   <<"x", ":">>,
   <<"x", "NL", "x", "NL", "x", ":">>,
   <<"x", "SP", "nhu", "SP", "sau", ":", "SP", "NL">>,
   <<"x", "SP", "nhu", "SP", "sau", ":", "SP", "x", "x">>}

\* What one chat.completions.create call followed by
\* response.choices[0].message.content gives: an exception, or the content,
\* which is None (Absent) or a text.
LlmOutcomes ==
  {[raises |-> TRUE, content |-> Absent]}
  \cup {[raises |-> FALSE, content |-> c] :
          c \in {Absent} \cup {Present(t) : t \in ReplyTexts}}

\* `if answer:` is false for None and for the empty text.
Truthy(content) == content # Absent /\ content[1] # <<>>

\* The comparison with >= in place of >.
KeepLonger_OrEqual(answer, new_answer) ==
  IF CharLen(new_answer) >= CharLen(answer) THEN new_answer ELSE answer

\* `if len(new_answer) > len(answer): answer = new_answer`
KeepLonger(answer, new_answer) ==
  IF CharLen(new_answer) > CharLen(answer) THEN new_answer ELSE answer

\* One entry of the log of calls.
Call(model, max_tokens, o) ==
  [model |-> model, max_tokens |-> max_tokens, outcome |-> o]

\* `return`: the kind of the returned string, the LLM content it is made
\* of, the grouped context it carries.
Return(frame, kind, content, ctx) ==
  [frame EXCEPT !.pc = "done",
                !.returned = [kind |-> kind, content |-> content,
                              context |-> ctx]]

\* The raise of the last line left uncaught.
ErrorReply_Raises(frame) ==
  Return(frame, "raised", Absent, <<>>)

\* `raise model_error` after the last fallback model, caught by the outer
\* `except Exception as e`: the error message followed by the context.
ErrorReply(frame) ==
  Return(frame, "error", Absent, context_text(frame.context_chunks))

\* The list walked from its end.
FallbackModel_Reversed(tried) ==
  fallback_models[Len(fallback_models) - tried]

\* The loop that never leaves the first model.
FallbackModel_Stuck(tried) == fallback_models[1]

\* fallback_model of the iteration after `tried` failed fallback calls
FallbackModel(tried) == fallback_models[tried + 1]

GenFrame ==
  UNCHANGED <<HAS_AI_LIBS, encoder, storeVars, disk_index, disk_meta,
              faulted, last_op, results, concVars, user_files,
              reranker_model, context, uploads, unitVars, uploadVars,
              llm_client, opsVars>>

\* The function up to the first LLM call: the empty context, the grouping,
\* the missing client.
Enter ==
  /\ gen_call.pc = "entry"
  /\ gen_call' =
       IF gen_call.context_chunks = <<>>
       THEN Return(gen_call, "no_info", Absent, <<>>)
       ELSE IF ~llm_client
       THEN Return(gen_call, "no_key", Absent,
                   context_text(gen_call.context_chunks))
       ELSE [gen_call EXCEPT !.pc = "primary"]
  /\ UNCHANGED llm_calls
  /\ GenFrame

\* The call of the configured model and what follows it without another
\* call.  llm_provider is "groq" whenever llm_client is not None, so the
\* branch of the unsupported provider is never taken.
PrimaryCall ==
  /\ gen_call.pc = "primary"
  /\ \E o \in LlmOutcomes :
       /\ llm_calls' = Append(llm_calls, Call(llm_model, MAX_TOKENS, o))
       /\ gen_call' =
            IF o.raises THEN [gen_call EXCEPT !.pc = "fallback"]
            ELSE IF Truthy(o.content)
                    /\ incomplete_patterns(strip(o.content[1]))
            THEN [gen_call EXCEPT !.pc = "retry", !.answer = o.content]
            ELSE Return([gen_call EXCEPT !.answer = o.content],
                        "llm", o.content, <<>>)
  /\ GenFrame

\* The second call of the configured model.  An exception of the call, and
\* the TypeError of len(None), are caught by `except Exception as
\* retry_error`.
RetryCall ==
  /\ gen_call.pc = "retry"
  /\ \E o \in LlmOutcomes :
       /\ llm_calls' =
            Append(llm_calls, Call(llm_model, RETRY_MAX_TOKENS, o))
       /\ LET answer ==
                IF o.raises \/ o.content = Absent THEN gen_call.answer
                ELSE Present(KeepLonger(gen_call.answer[1], o.content[1]))
          IN gen_call' = Return([gen_call EXCEPT !.answer = answer],
                                "llm", answer, <<>>)
  /\ GenFrame

\* One iteration of `for fallback_model in fallback_models`, and the raise
\* after the last one.
FallbackCall ==
  /\ gen_call.pc = "fallback"
  /\ gen_call.tried < Len(fallback_models)
  /\ \E o \in LlmOutcomes :
       /\ llm_calls' = Append(llm_calls,
                              Call(FallbackModel(gen_call.tried),
                                   MAX_TOKENS, o))
       /\ gen_call' =
            IF ~o.raises
            THEN Return([gen_call EXCEPT !.answer = o.content],
                        "llm", o.content, <<>>)
            ELSE IF gen_call.tried + 1 < Len(fallback_models)
            THEN [gen_call EXCEPT !.tried = @ + 1]
            ELSE ErrorReply([gen_call EXCEPT !.tried = @ + 1])
  /\ GenFrame

\* ------------------------------------------------------------------------
\* Specification SpecAnswer: one generate_answer call, on any context, with
\* and without the LLM client.  SpecAnswerLive adds that the call keeps
\* running: every LLM call returns or raises.
\* ------------------------------------------------------------------------
InitAnswer ==
  /\ HAS_AI_LIBS = TRUE
  /\ encoder = TRUE
  /\ index = <<>>
  /\ metadata = <<>>
  /\ metadata_by_file = EmptyFileIndex
  /\ disk_index = Absent
  /\ disk_meta = Absent
  /\ faulted = FALSE
  /\ last_op = NoOp
  /\ results = <<>>
  /\ ConcIdle
  /\ user_files = {}
  /\ reranker_model = FALSE
  /\ context = <<>>
  /\ uploads = 0
  /\ UnitIdle
  /\ UploadIdle
  /\ llm_client \in BOOLEAN
  /\ \E chunks \in Contexts :
       gen_call = [NoCall EXCEPT !.pc = "entry", !.context_chunks = chunks]
  /\ llm_calls = <<>>
  /\ OpsIdle

NextAnswer ==
  \/ Enter
  \/ PrimaryCall
  \/ RetryCall
  \/ FallbackCall

SpecAnswer == InitAnswer /\ [][NextAnswer]_vars

SpecAnswerLive == SpecAnswer /\ WF_vars(NextAnswer)

\* ------------------------------------------------------------------------
\* Specification SpecAuth: logins, logouts and authenticated requests over
\* the days, on the accounts of Users.
\* ------------------------------------------------------------------------
MaxDays == 8

\* COOKIE_MAX_AGE, in days
COOKIE_MAX_AGE_DAYS == 7

\* The Authorization headers: none, or "Bearer " followed by a token.
HeaderValues == {<<>>} \cup {<<"Bearer ", t>> : t \in Tokens}

\* The requests: each of session_id in the body, session_id in the query
\* and the ragviet_session cookie is missing or a token (a live one, one
\* that was logged out, or one that was never issued); at most
\* MaxSources of the four sources are present.
MaxSources == 2

SourcesPresent(req) ==
  Cardinality({k \in {"body", "query", "cookie"} : req[k] # None})
    + (IF req.header # <<>> THEN 1 ELSE 0)

AuthRequests ==
  {req \in [body : Tokens \cup {None}, query : Tokens \cup {None},
            cookie : Tokens \cup {None}, header : HeaderValues] :
     SourcesPresent(req) <= MaxSources}

\* str.replace('Bearer ', '') on the header, then the string that is left
\* ("" for no header).
ReplaceBearer(header) ==
  LET rest == SelectSeq(header, LAMBDA part : part # "Bearer ")
  IN IF rest = <<>> THEN "" ELSE rest[1]

\* `not token`
Falsy(token) == token = None \/ token = ""

\* get_session_id_from_request
get_session_id_from_request(req) ==
  IF ~Falsy(req.body) THEN req.body
  ELSE IF ~Falsy(req.query) THEN req.query
  ELSE IF ~Falsy(req.cookie) THEN req.cookie
  ELSE ReplaceBearer(req.header)

\* AuthManager.get_user_from_session
get_user_from_session(session_id) ==
  IF Falsy(session_id) THEN None
  ELSE IF session_id \in Tokens THEN sessions[session_id]
  ELSE None

\* The variables the auth requests leave alone.
AuthFrame ==
  UNCHANGED <<storeVars, diskVars, modeVars, faulted, last_op, results,
              concVars, user_files, reranker_model, context, uploads,
              unitVars, uploadVars, genVars, maintVars, rerank_call,
              chunkVars>>

\* Authenticate changes nothing but the record of the request, so what
\* can follow it is explored from the state before it.
Settled == auth_log.op # "authenticate"

\* AuthManager.login as LoginView.post calls it: a new token for the user
\* when the password is right.
Login ==
  \E u \in Users, password \in {"secret1", "secret2"} :
    /\ Settled
    /\ IF accounts[u].password_hash = Sha256(password)
       THEN \E t \in {x \in Tokens : issued[x] = Absent} :
              /\ sessions' = [sessions EXCEPT ![t] = u]
              /\ issued' = [issued EXCEPT ![t] = Present(today)]
              /\ auth_log' = [NoAuth EXCEPT !.op = "login", !.token = t,
                                            !.user = u]
       ELSE /\ auth_log' = [NoAuth EXCEPT !.op = "login", !.ok = FALSE]
            /\ UNCHANGED <<sessions, issued>>
    /\ UNCHANGED <<today, logged_out, accounts, consumed>>
    /\ AuthFrame

\* The tokens a request carries.
Carried(req) ==
  {t \in Tokens : t \in {req.body, req.query, req.cookie}
                    \/ req.header = <<"Bearer ", t>>}

\* LogoutView.post
Logout ==
  \E req \in AuthRequests :
    LET session_id == get_session_id_from_request(req)
    IN /\ Settled
       /\ sessions' = IF session_id \in Tokens
                      THEN [sessions EXCEPT ![session_id] = None]
                      ELSE sessions
       /\ logged_out' =
            logged_out \cup {t \in Carried(req) : issued[t] # Absent}
       /\ auth_log' = [NoAuth EXCEPT !.op = "logout",
                                     !.token = session_id]
       /\ UNCHANGED <<issued, today, accounts, consumed>>
       /\ AuthFrame

\* get_session_id_from_request followed by get_user_from_session, the
\* first step of every view that needs the user.
Authenticate ==
  \E req \in AuthRequests :
    LET session_id == get_session_id_from_request(req)
    IN /\ Settled
       /\ auth_log' = [NoAuth EXCEPT
                         !.op = "authenticate", !.request = req,
                         !.token = session_id,
                         !.user = get_user_from_session(session_id)]
       /\ UNCHANGED <<sessions, issued, today, logged_out, accounts,
                      consumed>>
       /\ AuthFrame

\* A day passes.
Tick ==
  /\ Settled
  /\ today < MaxDays
  /\ today' = today + 1
  /\ UNCHANGED <<sessions, issued, logged_out, accounts, consumed,
                 auth_log>>
  /\ AuthFrame

NextAuth ==
  \/ Login
  \/ Logout
  \/ Authenticate
  \/ Tick

SpecAuth == InitLoaded /\ [][NextAuth]_vars

\* ------------------------------------------------------------------------
\* Specification SpecReset: password-reset OTPs issued and used over the
\* days, on the accounts of Users.
\* ------------------------------------------------------------------------
Emails == Users \cup {"nobody"}

\* Database.create_reset_token: a random 4-digit OTP that expires at
\* 23:59:59 of the day.
CreateResetToken ==
  \E email \in Emails, otp \in Otps :
    /\ IF email \in Users
       THEN /\ accounts' =
                 [accounts EXCEPT
                    ![email].reset_token = otp,
                    ![email].reset_token_expires = Present(today)]
            /\ consumed' = {}
            /\ auth_log' = [NoAuth EXCEPT !.op = "create_reset_token",
                                          !.token = otp, !.user = email]
       ELSE /\ auth_log' = [NoAuth EXCEPT !.op = "create_reset_token",
                                          !.ok = FALSE]
            /\ UNCHANGED <<accounts, consumed>>
    /\ UNCHANGED <<sessions, issued, today, logged_out>>
    /\ AuthFrame

\* Database.verify_reset_token: the users find_one can return, those with
\* that reset_token and reset_token_expires > utcnow().
VerifiedUsers(token) ==
  {u \in Users :
     /\ accounts[u].reset_token = token
     /\ IsPresent(accounts[u].reset_token_expires)
     /\ accounts[u].reset_token_expires[1] >= today}

\* The users update_one({"reset_token": token}) can modify.
UpdateTargets(token) == {u \in Users : accounts[u].reset_token = token}

\* AuthManager.reset_password with Database.reset_password
ResetPassword ==
  \E token \in Otps \cup {""}, new_password \in Passwords :
    /\ IF /\ ~Falsy(token)
          /\ PasswordLen(new_password) >= 6
          /\ VerifiedUsers(token) # {}
       THEN \E target \in UpdateTargets(token) :
              /\ accounts' =
                   [accounts EXCEPT
                      ![target] = [password_hash |-> Sha256(new_password),
                                   reset_token |-> None,
                                   reset_token_expires |-> Absent]]
              /\ consumed' = consumed \cup {token}
              /\ auth_log' =
                   [NoAuth EXCEPT
                      !.op = "reset_password", !.token = token,
                      !.user = target,
                      !.was_consumed = (token \in consumed),
                      !.changed = (accounts[target].password_hash
                                     # Sha256(new_password))]
       ELSE /\ auth_log' =
                 [NoAuth EXCEPT !.op = "reset_password", !.token = token,
                                !.ok = FALSE,
                                !.was_consumed = (token \in consumed)]
            /\ UNCHANGED <<accounts, consumed>>
    /\ UNCHANGED <<sessions, issued, today, logged_out>>
    /\ AuthFrame

NextReset ==
  \/ CreateResetToken
  \/ ResetPassword
  \/ Tick

SpecReset == InitLoaded /\ [][NextReset]_vars

\* ------------------------------------------------------------------------
\* Properties
\* ------------------------------------------------------------------------
\* metadata[i] is the entry whose text produced vector i
Aligned ==
  /\ Len(index) = Len(metadata)
  /\ \A i \in 1..Len(metadata) : index[i] = Encode(metadata[i].text)

\* C1: after any sequence of add_documents, delete_by_filename,
\* delete_temp_files_by_user and clear_all calls the index holds as many
\* vectors as there are metadata entries, and vector i is the embedding of
\* the text of metadata[i].
C1_PositionInvariant == Aligned

Failed(op) == last_op'.op = op /\ last_op'.status # "ok"

\* C6: an add_documents call that fails leaves the index, the metadata
\* list and the per-file index as they were before the call.
C6_AddAllOrNothing ==
  [][Failed("add_documents") => UNCHANGED storeVars]_vars

\* C7: a delete_by_filename or delete_temp_files_by_user call that fails
\* part-way leaves the chunks and the vectors of the store as they were.
C7_DeleteAllOrNothing ==
  [][(Failed("delete_by_filename") \/ Failed("delete_temp_files_by_user"))
       => (metadata' = metadata /\ index' = index)]_vars

\* C9: at every point in time the two snapshot files are both absent, or
\* both present with the index file holding the vectors of the chunks of
\* the metadata file, in the same order.
C9_SnapshotConsistent ==
  \/ disk_index = Absent /\ disk_meta = Absent
  \/ /\ IsPresent(disk_index) /\ IsPresent(disk_meta)
     /\ Len(disk_index[1]) = Len(disk_meta[1])
     /\ \A i \in 1..Len(disk_meta[1]) :
          disk_index[1][i] = Encode(disk_meta[1][i].text)

NotOwnedBy(meta, u) == SelectSeq(meta, LAMBDA m : m.user_id # u)

\* C10: delete_by_filename(f, user_id=U) keeps every chunk whose owner is
\* not U, in the same relative order.
C10_DeleteKeepsOthers ==
  [][\A u \in Users :
       (last_op'.op = "delete_by_filename" /\ last_op'.user = u)
         => NotOwnedBy(metadata', u) = NotOwnedBy(metadata, u)]_vars

\* C4: two concurrent mutations end in a state that one of the two serial
\* orders of the calls produces, with the index aligned to the metadata.
C4_MutationsSerializable ==
  AllDone =>
    /\ Aligned
    /\ [index |-> index, metadata |-> metadata,
        metadata_by_file |-> metadata_by_file] \in SerialOutcomes

\* C5: no search is answered from a state in which the vectors of an
\* add_documents batch are in the index while the metadata of the batch is
\* not yet (or only partly) appended.
C5_SearchSeesWholeBatches ==
  last_op.op = "search" => search_view.ntotal = search_view.nmeta

\* C3: every chunk of the context that /chat/send, authenticated as user
\* U, hands to generate_answer is owned by U.
C3_ContextOwnedByCaller ==
  (last_op.op = "chat_send" /\ last_op.user \in Users)
    => \A i \in 1..Len(context) : context[i].user_id = last_op.user

ChunksOf(u, f) ==
  Len(SelectSeq(metadata, LAMBDA m : m.user_id = u /\ m.filename = f))

\* C8: every registered file record (U, f) has total_chunks equal to the
\* number of chunks of (U, f) in the VectorStore, or total_chunks 0.
C8_RegistryMatchesStore ==
  \A r \in user_files :
    r.total_chunks = 0 \/ r.total_chunks = ChunksOf(r.user_id, r.filename)

\* ------------------------------------------------------------------------
\* get_adjacent_chunks
\* ------------------------------------------------------------------------
AfterAdjacent == last_op.op = "get_adjacent_chunks"

\* The stored entry a search result was made from.
EntryOf(c) ==
  [text |-> c.text, filename |-> c.filename, page_number |-> c.page_number,
   chunk_id |-> c.chunk_id, user_id |-> c.user_id]

KeysOf(chunks) == {ChunkKey(chunks[i]) : i \in 1..Len(chunks)}

\* The stored chunks of a seed's file 1..page_range pages away from it.
NeighbourEntries ==
  LET seeds == adjacent_args.chunks
  IN {m \in Range(metadata) :
        \E i \in 1..Len(seeds) :
          /\ m.filename = seeds[i].filename
          /\ Abs(m.page_number - seeds[i].page_number) >= 1
          /\ Abs(m.page_number - seeds[i].page_number)
               <= adjacent_args.page_range}

AdjacentKeysOnceAndSorted ==
  \A i, j \in 1..Len(results) :
    i < j => FilePageChunkKey(results[i]) < FilePageChunkKey(results[j])

AdjacentExtrasNearSeed ==
  \A i \in 1..Len(results) :
    \/ \E k \in 1..Len(adjacent_args.chunks) :
         results[i] = adjacent_args.chunks[k]
    \/ results[i] \in NeighbourEntries

C12_HistoryOnlyOwnTurns ==
  (last_op.op = "chat_history" /\ response.code = 200)
    => \A i \in 1..Len(response.messages) :
         response.messages[i].user_id = last_op.user

\* C13: a /chat/send request of an authenticated user that returns a reply
\* appends exactly one turn to the chat log, holding that message and that
\* reply.
C13_ReplyPersistsOneTurn ==
  [][(last_op'.op = "chat_send" /\ last_op'.user \in Users
        /\ response'.code = 200)
       => /\ Len(chat_history') = Len(chat_history) + 1
          /\ LET turn == chat_history'[Len(chat_history')]
             IN /\ turn.user_id = last_op'.user
                /\ turn.message = response'.message
                /\ turn.response = response'.response]_vars

IsTurnOf(turn, r) ==
  /\ turn.user_id = chat_reqs[r].user
  /\ turn.message = chat_reqs[r].message

\* C14: of two /chat/send requests on one chat session, the turn of the
\* request that arrived first precedes the turn of the other in
\* get_session_messages, whatever the interleaving of their steps.
C14_TurnsInArrivalOrder ==
  (\A r \in ChatRequests : chat_reqs[r].pc = "done")
    => LET turns == get_session_messages(chat_history, SharedSession)
           a == arrivals[1]
           b == arrivals[2]
       IN \A i, j \in 1..Len(turns) :
            (/\ IsTurnOf(turns[i], a) /\ ~IsTurnOf(turns[i], b)
             /\ IsTurnOf(turns[j], b) /\ ~IsTurnOf(turns[j], a))
              => i < j

\* ------------------------------------------------------------------------
\* /files/upload
\* ------------------------------------------------------------------------
AfterUpload == last_op.op = "file_upload"

\* The request carried only PDF files that parse to at least one page, and
\* the one thing that failed was the blob upload of one of several files.
OneBlobFailed ==
  /\ AfterUpload
  /\ Len(upload_req.files) > 1
  /\ upload_req.fault.kind = "blob"
  /\ \A i \in 1..Len(upload_req.files) :
       /\ EndsWithPdf(upload_req.files[i])
       /\ upload_req.docs[i].size > 0
       /\ upload_req.docs[i].ok
       /\ upload_req.docs[i].pages # {}

\* C15: when the blob upload of one file of a multi-file request fails,
\* every other file of the request is still processed, indexed and
\* registered.
C15_BlobFailureAbortsOneFile ==
  OneBlobFailed =>
    \A i \in 1..Len(upload_req.files) :
      i # upload_req.fault.at =>
        LET n == Cardinality(upload_req.docs[i].pages)
        IN /\ [user_id |-> last_op.user, filename |-> upload_req.files[i],
               total_chunks |-> n] \in user_files
           /\ ChunksOf(last_op.user, upload_req.files[i]) = n

\* C16: when a /files/upload request has finished, with whatever response,
\* no temporary file that it created is left.
C16_TempFilesRemoved ==
  AfterUpload => \A t \in temp_files : t[1] # uploads

\* ------------------------------------------------------------------------
\* generate_answer
\* ------------------------------------------------------------------------
GenDone == gen_call.pc = "done"

LlmReturn(content) == [kind |-> "llm", content |-> content, context |-> <<>>]

\* The reply trims to one of the suffixes "nhu sau:", "bao gom:",
\* "cu the:", "gom:", or to a colon on a reply of fewer than 3 lines.
TrimsToSuffix(text) ==
  LET t == strip(text)
  IN \/ endswith(t, <<"nhu", "SP", "sau", ":">>)
     \/ endswith(t, <<"bao", "SP", "gom", ":">>)
     \/ endswith(t, <<"cu", "SP", "the", ":">>)
     \/ endswith(t, <<"gom", ":">>)
     \/ (endswith(t, <<":">>) /\ SplitLines(t) < 3)

FirstIncomplete ==
  /\ Len(llm_calls) >= 1
  /\ ~llm_calls[1].outcome.raises
  /\ llm_calls[1].outcome.content # Absent
  /\ TrimsToSuffix(llm_calls[1].outcome.content[1])

\* C17: when the first reply of the primary model trims to an
\* incompleteness suffix, there is exactly one more call, of the primary
\* model with max_tokens 8192, and the call returns the retry's reply when
\* it is strictly longer than the first reply, the first reply otherwise
\* and when the retry raises.
C17_CompletenessRetry ==
  FirstIncomplete =>
    LET first == llm_calls[1].outcome.content
    IN IF ~GenDone
       THEN Len(llm_calls) = 1 /\ gen_call.pc = "retry"
       ELSE /\ Len(llm_calls) = 2
            /\ llm_calls[2].model = llm_model
            /\ llm_calls[2].max_tokens = RETRY_MAX_TOKENS
            /\ LET retry == llm_calls[2].outcome
               IN gen_call.returned =
                    LlmReturn(IF /\ ~retry.raises
                                 /\ retry.content # Absent
                                 /\ CharLen(retry.content[1])
                                      > CharLen(first[1])
                              THEN retry.content
                              ELSE first)

C17_Witness ==
  /\ GenDone
  /\ FirstIncomplete
  /\ Len(llm_calls) = 2
  /\ ~llm_calls[2].outcome.raises
  /\ llm_calls[2].outcome.content # llm_calls[1].outcome.content
  /\ gen_call.returned = LlmReturn(llm_calls[2].outcome.content)

PrimaryRaised ==
  /\ Len(llm_calls) >= 1
  /\ llm_calls[1].outcome.raises

\* C18: when the primary call raises, the calls after it are of the
\* fallback models in list order, a fallback call that succeeds is the last
\* call and its reply is what the function returns, and the function
\* returns only after a success or after the whole list.
C18_FallbackInOrder ==
  PrimaryRaised =>
    /\ \A k \in 2..Len(llm_calls) :
         /\ llm_calls[k].model = fallback_models[k - 1]
         /\ ~llm_calls[k].outcome.raises =>
              /\ k = Len(llm_calls)
              /\ GenDone
              /\ gen_call.returned = LlmReturn(llm_calls[k].outcome.content)
    /\ GenDone =>
         \/ ~llm_calls[Len(llm_calls)].outcome.raises
         \/ Len(llm_calls) = 1 + Len(fallback_models)

C18_Witness ==
  /\ GenDone
  /\ Len(llm_calls) = 3
  /\ llm_calls[1].outcome.raises
  /\ llm_calls[2].outcome.raises
  /\ ~llm_calls[3].outcome.raises
  /\ llm_calls[3].outcome.content # Absent
  /\ llm_calls[3].model = "llama-3.1-8b-instant"
  /\ gen_call.returned = LlmReturn(llm_calls[3].outcome.content)

CallsOf(model, max_tokens) ==
  Cardinality({k \in 1..Len(llm_calls) :
                 /\ llm_calls[k].model = model
                 /\ llm_calls[k].max_tokens = max_tokens})

CallsCapped ==
  /\ CallsOf(llm_model, MAX_TOKENS) <= 1
  /\ CallsOf(llm_model, RETRY_MAX_TOKENS) <= 1
  /\ \A i \in 1..Len(fallback_models) :
       CallsOf(fallback_models[i], MAX_TOKENS) <= 1
  /\ Len(llm_calls) <= 2 + Len(fallback_models)
  /\ \A k \in 1..Len(llm_calls) :
       \/ llm_calls[k].model = llm_model
       \/ /\ llm_calls[k].model \in Range(fallback_models)
          /\ llm_calls[k].max_tokens = MAX_TOKENS

\* C19: a generate_answer call never makes more than one primary call, one
\* retry call and one call of each fallback model, and it returns, whatever
\* the LLM calls give.
C19_TerminatesWithinCap ==
  []CallsCapped /\ <>GenDone

C19_Witness ==
  /\ GenDone
  /\ Len(llm_calls) = 1 + Len(fallback_models)
  /\ \A i \in 1..Len(fallback_models) :
       CallsOf(fallback_models[i], MAX_TOKENS) = 1

AllModelsFailed ==
  /\ Len(llm_calls) = 1 + Len(fallback_models)
  /\ \A k \in 1..Len(llm_calls) : llm_calls[k].outcome.raises

\* The i-th (filename, page) of the chunks in ascending order.
KeyAt(chunks, i) ==
  LET keys == {PageKey(c) : c \in Range(chunks)}
  IN CHOOSE k \in keys :
       Cardinality({j \in keys : PageKeyRank(j) < PageKeyRank(k)}) = i - 1

\* ctx has one part per (filename, page) of the chunks, ascending, each the
\* texts of the chunks of that page in the order they were given.
IsGroupedContext(ctx, chunks) ==
  /\ Len(ctx) = Cardinality({PageKey(c) : c \in Range(chunks)})
  /\ \A i \in 1..Len(ctx) :
       LET g == SelectSeq(chunks, LAMBDA c : PageKey(c) = KeyAt(chunks, i))
       IN ctx[i] = [j \in 1..Len(g) |-> g[j].text]

\* C20: generate_answer never raises, and when the primary model and every
\* fallback model have failed it has returned the error notice followed by
\* the grouped context.
C20_DegradedReply ==
  /\ gen_call.returned.kind # "raised"
  /\ AllModelsFailed =>
       /\ GenDone
       /\ gen_call.returned.kind = "error"
       /\ IsGroupedContext(gen_call.returned.context,
                           gen_call.context_chunks)

C20_Witness ==
  /\ GenDone
  /\ AllModelsFailed
  /\ gen_call.returned.kind = "error"
  /\ Len(gen_call.returned.context) = 2

\* The last request was a /chat/send.
ChatSent == last_op.op = "chat_send"

\* The characters of the message of the last /chat/send, normalized.
SentNormalized == normalize_text(MessageChars[chat_trace.message])

\* The calls of retrieval and of the LLM.
RetrievalCalls ==
  {"search", "get_adjacent_chunks", "rerank", "generate_answer"}

\* C21: a /chat/send whose message normalizes to a key of the greeting
\* table is answered 200 with the canned reply of that key, and the request
\* calls neither VectorStore.search nor the reranker nor the LLM.
C21_GreetingShortCircuit ==
  (ChatSent /\ SentNormalized \in DOMAIN NATURAL_RESPONSES)
    => /\ response.code = 200
       /\ response.response = Reply(NATURAL_RESPONSES[SentNormalized])
       /\ chat_trace.calls \cap RetrievalCalls = {}

C21_Witness ==
  /\ ChatSent
  /\ chat_trace.message = "Hello!"
  /\ metadata # <<>>
  /\ response.response = Reply("greeting")
  /\ "search" \notin chat_trace.calls

\* C22: a /chat/send whose message is no greeting and is classified
\* meaningless by is_meaningless_query is answered with the "ask a
\* meaningful question" reply and calls neither VectorStore.search nor the
\* reranker nor the LLM.
C22_MeaninglessShortCircuit ==
  (/\ ChatSent
   /\ chat_trace.message # ""
   /\ get_natural_response(chat_trace.message) = None
   /\ is_meaningless_query(MessageChars[chat_trace.message]))
    => /\ response.code = 200
       /\ response.response = Reply("meaningless")
       /\ chat_trace.calls \cap RetrievalCalls = {}

\* The last delete call was `name` and it returned.
DeleteReturned(name) ==
  /\ delete_call.op = name
  /\ delete_call.status = "ok"

\* The chunks delete_temp_files_by_user(user_id, valid) is to remove: those
\* of the user with a temp-file name and, when valid is given, those of the
\* user whose filename is not in valid.
ToRemoveByTempCleanup(m, user_id, valid) ==
  /\ m.user_id = user_id
  /\ \/ TempPatternMatch(m.filename)
     \/ IsPresent(valid) /\ m.filename \notin valid[1]

\* C23: when delete_temp_files_by_user(U, valid) returns, the store holds
\* the chunks it held before the call without the chunks of U that have a
\* temp-file name and, whenever valid is given (an empty list included),
\* without the chunks of U whose filename is not in valid; the other
\* chunks keep their order.
C23_TempCleanupExact ==
  DeleteReturned("delete_temp_files_by_user")
    => metadata =
         SelectSeq(delete_call.before,
                   LAMBDA m : ~ToRemoveByTempCleanup(
                                  m, delete_call.user_id,
                                  delete_call.valid_filenames))

\* m is a chunk of the file and of the user of the last delete call.
DeletedFileOfUser(m) ==
  /\ m.filename = delete_call.filename
  /\ m.user_id = delete_call.user_id

\* C24: after delete_by_filename(f, user_id=U) has returned, a search with
\* user filter U returns no chunk with filename f, and the metadata
\* snapshot on disk holds no chunk of f owned by U.
C24_DeletedFileGone ==
  DeleteReturned("delete_by_filename")
    => /\ last_op.op = "search"
            => \A i \in 1..Len(results) :
                 results[i].filename # delete_call.filename
       /\ IsPresent(disk_meta)
            => \A i \in 1..Len(disk_meta[1]) :
                 ~DeletedFileOfUser(disk_meta[1][i])

\* C25: every result of a search with a filename filter has that filename.
C25_FilenameFilter ==
  (last_op.op = "search" /\ last_op.filename # None)
    => \A i \in 1..Len(results) : results[i].filename = last_op.filename

C25_Witness ==
  /\ last_op.op = "search"
  /\ last_op.filename = "a.pdf"
  /\ Len(results) = 1
  /\ Len(metadata) >= 2
  /\ \E i \in 1..Len(metadata) :
       /\ metadata[i].filename = "tmp1.pdf"
       /\ SearchPasses(metadata[i], None, last_op.user)

\* The last request was authenticated as a user.
Authenticated ==
  /\ auth_log.op = "authenticate"
  /\ auth_log.user # None

\* C26: no request is authenticated by get_user_from_session more than 7
\* days after the login that issued its token.
C26_SessionLifetime ==
  Authenticated
    => today - issued[auth_log.token][1] <= COOKIE_MAX_AGE_DAYS

\* The users of the live sessions whose token the request carries.
ValidUsers(req) ==
  {sessions[t] : t \in {x \in Carried(req) : sessions[x] # None}}

\* C27: a request that carries the token of a live session in one of its
\* four sources is authenticated as the user of such a token, whatever its
\* other sources hold.
C27_AnySourceSuffices ==
  (auth_log.op = "authenticate" /\ ValidUsers(auth_log.request) # {})
    => auth_log.user \in ValidUsers(auth_log.request)

\* C28: a request that carries only a token that a logout request has
\* carried is not authenticated.
C28_LogoutDestroys ==
  (/\ auth_log.op = "authenticate"
   /\ \E t \in logged_out : Carried(auth_log.request) = {t})
    => auth_log.user = None

\* C29: a reset_password with an OTP that a successful reset has used,
\* with no OTP issued since, fails and changes no password.
C29_OtpConsumed ==
  (auth_log.op = "reset_password" /\ auth_log.was_consumed)
    => /\ ~auth_log.ok
       /\ ~auth_log.changed

\* out is the k documents of docs with the highest rerank_score for the
\* query (all of them when docs has fewer), each with its score attached,
\* in descending order of the score.
IsTopByScore(out, docs, query, k) ==
  /\ Len(out) = Min(k, Len(docs))
  /\ \E pick \in [1..Len(out) -> 1..Len(docs)] :
       /\ \A i, j \in 1..Len(out) : i # j => pick[i] # pick[j]
       /\ \A i \in 1..Len(out) :
            out[i] = docs[pick[i]] @@
                       [rerank_score |->
                          RerankScore(query, docs[pick[i]].text)]
       /\ \A i \in 1..Len(out), j \in 1..Len(docs) :
            (\A h \in 1..Len(out) : pick[h] # j)
              => RerankScore(query, docs[j].text) <= out[i].rerank_score
  /\ \A i, j \in 1..Len(out) :
       i < j => out[i].rerank_score >= out[j].rerank_score

\* The last call was Reranker.rerank.
Reranked == last_op.op = "rerank"

\* C30 as stated: without a model rerank returns docs[:top_k]; with a
\* model it returns the top_k documents by rerank_score, descending.
C30_RerankByModel ==
  Reranked
    => /\ ~reranker_model
            => context = Prefix(results, rerank_call.top_k)
       /\ reranker_model
            => IsTopByScore(context, results, rerank_call.query,
                            rerank_call.top_k)

\* C30: rerank returns docs[:top_k] in input order when there is no model
\* or when compute_score raises; otherwise it returns the top_k documents
\* with the highest rerank_score, in descending order of rerank_score.
C30_RerankOrFallback ==
  Reranked
    => /\ (~reranker_model \/ ~rerank_call.score_ok)
            => context = Prefix(results, rerank_call.top_k)
       /\ (reranker_model /\ rerank_call.score_ok)
            => IsTopByScore(context, results, rerank_call.query,
                            rerank_call.top_k)

C30_Witness ==
  /\ Reranked
  /\ reranker_model
  /\ rerank_call.score_ok
  /\ rerank_call.top_k = 1
  /\ Len(results) = 2
  /\ context = <<results[2] @@ [rerank_score |-> 7]>>

\* C31: a /chat/send without a valid auth session hands no chunk owned by
\* a user to generate_answer.
C31_AnonymousSeesNoOwned ==
  (ChatSent /\ last_op.user = None)
    => \A i \in 1..Len(context) : context[i].user_id = None

\* The last request was a /files/upload in which no VectorStore call
\* raised.
UploadedWithoutStoreFault ==
  /\ last_op.op = "file_upload"
  /\ upload_req.fault.kind \in {"none", "blob", "db_read", "db_write"}

\* C32: a /files/upload by U of files F keeps every chunk the store held
\* but the chunks of U whose filename is in F or is a temp-file name,
\* whatever the registry read and the earlier registry writes gave.
C32_UploadKeepsOtherFiles ==
  UploadedWithoutStoreFault
    => \A i \in 1..Len(upload_req.before) :
         LET m == upload_req.before[i]
         IN ~(/\ m.user_id = last_op.user
              /\ \/ m.filename \in Range(upload_req.files)
                 \/ TempPatternMatch(m.filename))
              => m \in Range(metadata)

\* C33: a /chat/send appends a turn to a chat session, and changes a
\* session's title and message count, only if that session exists and is
\* owned by the user of the request.
C33_OwnSessionOnly ==
  [][last_op'.op = "chat_send"
       => /\ \A i \in (Len(chat_history) + 1)..Len(chat_history') :
               chat_history'[i].session_id # None
                 => \E x \in chat_sessions' :
                      /\ x.session_id = chat_history'[i].session_id
                      /\ x.user_id = last_op'.user
          /\ \A x \in chat_sessions :
               x \notin chat_sessions' => x.user_id = last_op'.user]_vars

\* ------------------------------------------------------------------------
\* Specification SpecWindow: one search with any filters on a store that
\* holds up to MaxWindowStore chunks of the users' files, each page of a
\* file once.
\* ------------------------------------------------------------------------
MaxWindowStore == 4

WindowStores ==
  {<<>>} \cup
  {s \in SeqsUpTo({MetaEntry(c) : c \in OwnedChunks}, MaxWindowStore) :
     \A i, j \in 1..Len(s) :
       (i < j /\ SameFile(s[i], s[j]))
         => s[i].page_number # s[j].page_number}

InitWindow ==
  /\ HAS_AI_LIBS = TRUE
  /\ encoder = TRUE
  /\ metadata \in WindowStores
  /\ index = EncodeAll([i \in 1..Len(metadata) |-> metadata[i].text])
  /\ metadata_by_file = BuildFileIndex(metadata)
  /\ disk_index = Present(index)
  /\ disk_meta = Present(metadata)
  /\ faulted = FALSE
  /\ last_op = NoOp
  /\ results = <<>>
  /\ ConcIdle
  /\ ApiIdle

\* vector_store.search(query, top_k, filename, user_id), the arguments kept
\* beside what the search read.
SearchFiltered ==
  \E q \in Queries, k \in TopKs, f \in Files \cup {None}, u \in Owners :
    /\ last_op.op = "init"
    /\ results' = search(Store, q, k, f, u)
    /\ last_op' = Op("search", "ok", u, f)
    /\ search_view' = [ntotal |-> Len(index), nmeta |-> Len(metadata),
                       query |-> q, top_k |-> k]
    /\ UNCHANGED <<storeVars, diskVars, modeVars, faulted, threads, base,
                   apiVars>>

NextWindow ==
  \/ SearchFiltered

SpecWindow == InitWindow /\ [][NextWindow]_vars

\* The positions of the stored chunks that pass the filters of the search.
PassingPositions ==
  {i \in 1..Len(metadata) :
     SearchPasses(metadata[i], last_op.filename, last_op.user)}

\* C34: a filtered search returns the min(top_k, m) nearest of the m chunks
\* that pass its filters, in ascending distance, so it returns a chunk
\* whenever one passes.
C34_NearestOfPassing ==
  (last_op.op = "search" /\ "top_k" \in DOMAIN search_view)
    => LET qv == Encode(search_view.query)
           n == Min(search_view.top_k, Cardinality(PassingPositions))
       IN /\ Len(results) = n
          /\ \A j \in 1..(Len(results) - 1) :
               results[j].distance <= results[j + 1].distance
          /\ \E chosen \in SUBSET PassingPositions :
               /\ Cardinality(chosen) = n
               /\ \A i \in chosen, o \in PassingPositions \ chosen :
                    L2(index[i], qv) <= L2(index[o], qv)
               /\ \A i \in chosen : \E j \in 1..Len(results) :
                    results[j] = SearchResult(metadata[i], L2(index[i], qv))

\* C35: a successful reset_password(token, new_password) changes the
\* account of one user, who held that token unexpired; no other user's
\* password or reset token changes.
C35_ResetOnlyTokenHolder ==
  [][(auth_log'.op = "reset_password" /\ auth_log'.ok)
       => \A u \in Users :
            accounts'[u] # accounts[u]
              => /\ u = auth_log'.user
                 /\ u \in VerifiedUsers(auth_log'.token)]_vars

\* ------------------------------------------------------------------------
\* Specification SpecChunk: one PDFProcessor.create_chunks call on the text
\* of a page, statement by statement, for a processor constructed with any
\* chunk_size and overlap.
\* ------------------------------------------------------------------------
MIN_CHUNK_SIZE == 300
MAX_CHUNK_SIZE == 500

\* The most chunks of a page the model follows the loop for.
MaxPageChunks == 10
\* The furthest below zero the model follows the window start.
MaxBackSteps == 3

ChunkSizes == {100, 400, 600}
Overlaps == {0, 100, 400, 600}

\* The text of a page as runs of characters: n letters or n spaces.
Run(kind, n) == [kind |-> kind, n |-> n]

PageTexts ==
  {<<>>, <<Run("x", 1)>>, <<Run("SP", 2)>>, <<Run("x", 350)>>,
   <<Run("x", 900)>>, <<Run("x", 10), Run("SP", 500), Run("x", 10)>>}

\* len(text)
RECURSIVE TextLen(_)
TextLen(text) ==
  IF text = <<>> THEN 0 ELSE text[1].n + TextLen(Tail(text))

\* text[i], i counted from 0
RECURSIVE CharAt(_, _)
CharAt(text, i) ==
  IF i < text[1].n THEN text[1].kind ELSE CharAt(Tail(text), i - text[1].n)

\* A bound of a Python slice: a negative one counts from the end, and
\* both are clipped to the text.
SliceBound(i, n) ==
  IF i < 0 THEN (IF i + n < 0 THEN 0 ELSE i + n) ELSE Min(i, n)

\* text[start:end].strip() is not empty
StripNonEmpty(text, start, end) ==
  \E i \in SliceBound(start, TextLen(text))
            ..(SliceBound(end, TextLen(text)) - 1) :
    CharAt(text, i) # "SP"

\* PDFProcessor.__init__: chunk_size is clamped, overlap is kept
PDFProcessorInit(chunk_size, overlap) ==
  [chunk_size |-> IF chunk_size < MIN_CHUNK_SIZE THEN MIN_CHUNK_SIZE
                  ELSE IF chunk_size > MAX_CHUNK_SIZE THEN MAX_CHUNK_SIZE
                  ELSE chunk_size,
   overlap |-> overlap]

ChunkFrame ==
  UNCHANGED <<storeVars, diskVars, modeVars, faulted, last_op, results,
              concVars, user_files, reranker_model, context, uploads,
              unitVars, uploadVars, genVars, maintVars, authVars,
              rerank_call>>

\* create_chunks is entered: chunks = [], start = 0, chunk_id = 0
CreateChunksCall ==
  \E chunk_size \in ChunkSizes, overlap \in Overlaps, text \in PageTexts :
    /\ chunking.pc = "idle"
    /\ chunking' =
         [NoChunking EXCEPT
            !.pc = "loop",
            !.chunk_size = PDFProcessorInit(chunk_size, overlap).chunk_size,
            !.overlap = PDFProcessorInit(chunk_size, overlap).overlap,
            !.text = text]
    /\ ChunkFrame

\* One test of `while start < len(text)`: an iteration of the loop, or the
\* return of the chunks.  A chunk is the slice [from, to) of the text.
CreateChunksStep ==
  /\ chunking.pc = "loop"
  /\ IF chunking.start < TextLen(chunking.text)
     THEN LET end == chunking.start + chunking.chunk_size
              kept == StripNonEmpty(chunking.text, chunking.start, end)
          IN /\ Len(chunking.chunks) < MaxPageChunks
             /\ chunking.start > -(MaxBackSteps * MAX_CHUNK_SIZE)
             /\ chunking' =
                  [chunking EXCEPT
                     !.chunks =
                        IF kept
                        THEN Append(@, [from |-> chunking.start,
                                        to |-> end,
                                        chunk_id |-> chunking.chunk_id])
                        ELSE @,
                     !.chunk_id = IF kept THEN @ + 1 ELSE @,
                     !.start = @ + chunking.chunk_size - chunking.overlap]
     ELSE chunking' = [chunking EXCEPT !.pc = "done"]
  /\ ChunkFrame

NextChunk ==
  \/ CreateChunksCall
  \/ CreateChunksStep

SpecChunk == InitLoaded /\ [][NextChunk]_vars

\* The thread that runs create_chunks keeps running: the loop takes its
\* next step whenever it has one.
SpecChunkLive == SpecChunk /\ WF_vars(CreateChunksStep)

\* C36: create_chunks terminates for every page text and every
\* chunk_size and overlap given to the constructor: each iteration of the
\* loop moves the window start forward, and the call returns.
C36_CreateChunksTerminates ==
  /\ [][(chunking.pc = "loop" /\ chunking'.pc = "loop")
          => chunking'.start > chunking.start]_vars
  /\ (chunking.pc = "loop") ~> (chunking.pc = "done")

\* C37: when every embedding model of the chain failed to load there is
\* no VectorStore: no add_documents or search call is accepted by a store
\* that has the libraries but no encoder.
C37_NoStoreWithoutEncoder ==
  (HAS_AI_LIBS /\ ~encoder)
    => ~(/\ last_op.op \in {"add_documents", "search"}
         /\ last_op.status = "ok")

OwnedKey(m) == <<m.user_id, m.filename, m.page_number, m.chunk_id>>

\* C38: after any sequence of upload and delete requests no two chunks of
\* the VectorStore have the same (user_id, filename, page_number,
\* chunk_id), also after a user uploads a filename again.
C38_ChunkKeyUnique ==
  \A i, j \in 1..Len(metadata) :
    i # j => OwnedKey(metadata[i]) # OwnedKey(metadata[j])

\* How many times x occurs in the sequence s.
Occurrences(s, x) == Cardinality({i \in 1..Len(s) : s[i] = x})

\* C39: for every filename f, metadata_by_file[f] holds exactly the
\* entries of metadata with filename f, each as often as metadata does,
\* in ascending order of (page_number, chunk_id); it is empty for a
\* filename with no entry.
C39_FileIndexAgrees ==
  \A f \in Files :
    LET listed == metadata_by_file[f]
    IN /\ \A i \in 1..Len(listed) : listed[i].filename = f
       /\ \A x \in Range(listed) \cup {m \in Range(metadata) : m.filename = f} :
            Occurrences(listed, x) = Occurrences(metadata, x)
       /\ \A i \in 1..(Len(listed) - 1) :
            \/ listed[i].page_number < listed[i + 1].page_number
            \/ /\ listed[i].page_number = listed[i + 1].page_number
               /\ listed[i].chunk_id <= listed[i + 1].chunk_id

\* Two chunks of one file were added with the later page first.
C39_Witness ==
  /\ last_op.op = "add_documents"
  /\ Len(metadata) = 2
  /\ metadata[1].filename = metadata[2].filename
  /\ metadata[1].page_number > metadata[2].page_number
  /\ Len(metadata_by_file[metadata[1].filename]) = 2

\* ------------------------------------------------------------------------
\* Specification SpecFrame: one query answered on a store of any contents,
\* with the dict objects that the calls write to.  An object is the
\* position of the stored metadata entry it is, or NewObject when it is no
\* stored entry.
\* ------------------------------------------------------------------------
NewObject == 0

\* meta used as it is: the stored entry itself.
dict_copy_SameObject(position) == position

\* meta.copy(): a new dict
dict_copy(position) == NewObject

\* The stored entry that an entry of metadata_by_file is.
StoredPosition(st, m) ==
  CHOOSE i \in 1..Len(st.metadata) :
    /\ st.metadata[i] = m
    /\ \A j \in 1..(i - 1) : st.metadata[j] # m

\* The writes of one answer: [obj, field, value] for each
\* `result["distance"] = ...` of search and each
\* `doc["rerank_score"] = ...` of rerank, whose documents are the results
\* of search and the copies that get_adjacent_chunks adds to them.
answer_writes(st, user_id, message, selected_file, score_ok) ==
  IF StatsTotalChunks(st, user_id) = 0 THEN {}
  ELSE
    LET hits == search_positions(st, message, SEARCH_TOP_K, selected_file,
                                 user_id)
        found == search(st, message, SEARCH_TOP_K, selected_file, user_id)
        expanded == get_adjacent_chunks(st, found, PAGE_RANGE)
        ObjectOf(doc) ==
          IF \E j \in 1..Len(found) : found[j] = doc
          THEN dict_copy(hits[CHOOSE j \in 1..Len(found) : found[j] = doc])
          ELSE dict_copy(StoredPosition(st, [f \in DOMAIN doc \ {"distance"}
                                               |-> doc[f]]))
    IN {[obj |-> dict_copy(hits[j]), field |-> "distance",
         value |-> found[j].distance] : j \in 1..Len(hits)}
         \cup
       (IF found # <<>> /\ reranker_model /\ score_ok
        THEN {[obj |-> ObjectOf(expanded[i]), field |-> "rerank_score",
               value |-> RerankScore(message, expanded[i].text)] :
                i \in 1..Len(expanded)}
        ELSE {})

\* The dict m, which is object obj, after those writes.
Written(m, obj, writes) ==
  LET mine == {w \in writes : w.obj = obj /\ obj # NewObject}
  IN [f \in DOMAIN m \cup {w.field : w \in mine} |->
        IF \E w \in mine : w.field = f
        THEN (CHOOSE w \in mine : w.field = f).value
        ELSE m[f]]

\* ChatSendView.post from get_stats to generate_answer (which reads the
\* context and writes to none of its chunks), on the store and its dicts.
AnswerQuery ==
  \E u \in Owners, message \in Queries, f \in Files \cup {None},
     score_ok \in BOOLEAN :
    /\ last_op.op = "init"
    /\ ~score_ok => reranker_model
    /\ \E r \in {chat_send(Store, u, message, f, score_ok)},
          w \in {answer_writes(Store, u, message, f, score_ok)} :
         /\ context' = r.context
         /\ last_op' = Op("answer", r.status, u, f)
         /\ metadata' =
              [i \in 1..Len(metadata) |-> Written(metadata[i], i, w)]
         /\ metadata_by_file' =
              [file \in Files |->
                 [k \in 1..Len(metadata_by_file[file]) |->
                    Written(metadata_by_file[file][k],
                            StoredPosition(Store, metadata_by_file[file][k]),
                            w)]]
    /\ UNCHANGED <<index, diskVars, modeVars, faulted, results, concVars,
                   user_files, reranker_model, uploads, unitVars,
                   uploadVars, genVars, opsVars>>

NextFrame ==
  \/ AnswerQuery

SpecFrame == InitRerank /\ [][NextFrame]_vars

\* C40: answering a query leaves the metadata entries, the per-file index
\* and the number of vectors as they were, and no stored metadata entry
\* gets a distance or a rerank_score field.
C40_AnswerLeavesStore ==
  [][last_op'.op = "answer"
       => /\ metadata' = metadata
          /\ metadata_by_file' = metadata_by_file
          /\ Len(index') = Len(index)
          /\ \A i \in 1..Len(metadata') :
               DOMAIN metadata'[i] \cap {"distance", "rerank_score"} = {}]_vars

\* An answer whose context of two chunks, a search result and a chunk of
\* the page next to it, carries the scores of the reranker.
C40_Witness ==
  /\ last_op.op = "answer"
  /\ last_op.status = "answered"
  /\ Len(context) = 2
  /\ \A i \in 1..Len(context) : "rerank_score" \in DOMAIN context[i]
  /\ \E i \in 1..Len(context) : "distance" \notin DOMAIN context[i]

====
